---- MODULE Spec2Model ----
(***************************************************************************)
(* A model of the Markdown formatter: the plain-text stripper, the inline  *)
(* tokenizer, the table extractor, the LaTeX transform, the RTF / docx     *)
(* block renderers and the MCP tool-call handler.                          *)
(*                                                                         *)
(* A JavaScript string is a sequence of one-character strings.  A regular  *)
(* expression is a sequence of items (literal, character-class run, line   *)
(* or string anchor) matched with JavaScript's backtracking order, so each *)
(* replace / split / test of the source is computed the way the engine     *)
(* computes it.                                                            *)
(***************************************************************************)
EXTENDS Integers, Sequences, FiniteSets, TLC

VARIABLES
    \* the plain-text stripper applied to a text, then to its own output
    stripText,   \* the input string
    clean,       \* stripMarkdown(stripText)
    restripped,  \* stripMarkdown(clean)
    emphasisI,   \* the i of stripMarkdown's emphasis loop
    stripPc,     \* "start", "stripped", "restripped", "emphasis", "emphasized"
    \* the inline tokenizer applied to one line of text
    segs,        \* the text, as the pieces it was written from
    runs,        \* parseInlineFormatting's TextRuns
    rtfInline,   \* parseInlineToRTF's string
    inlinePc,    \* "start", "docx", "rtf"
    \* the loop of parseMarkdownToRTF and parseMarkdownToDocx over one content
    lines,             \* content.split('\n')
    i,                 \* the index of the line the loop is at, from 0
    loopPasses,        \* the passes of the loop body made so far
    inCodeBlock,
    codeBlockContent,
    rtf,               \* parseMarkdownToRTF's string
    elements,          \* parseMarkdownToDocx's elements
    blockPc,           \* "loop", "done"
    \* parseMarkdownTable applied to a pipe table
    tableHeaders,      \* the cells of the header row
    tableRows,         \* the cells of each data row
    parsed,            \* parseMarkdownTable's { headers, rows }
    tablePc,           \* "start", "parsed"
    \* generateCSV applied to a document
    csvDoc,            \* the lines of the document
    csv,               \* generateCSV's string
    tableData,         \* parseMarkdownToTableData's rows
    csvPc,             \* "start", "done", "data"
    \* parseMarkdownToLaTeX applied to a document
    latexLines,        \* the lines of the document
    latex,             \* parseMarkdownToLaTeX's string
    latexPc,           \* "start", "done"
    \* one CallTool request through the handler and handleOutput
    srv,               \* the server: "http" (api/mcp.ts) or "stdio"
    request,           \* request.params: name and arguments
    toolOutput,        \* the content the tool hands to handleOutput
    browserOpen,       \* a launched browser that was not closed
    effects,           \* the converters, renderers and fs calls invoked, in order
    thrown,            \* the error a catch received: who threw it and its message
    result,            \* the CallTool result
    handlerPc,         \* "call", "html", "browser", "output", "mkdir", "written", "returned"
    \* generateJSON or generateXML applied to a document
    exportLines,       \* the lines of the document
    exportTitle,       \* the title
    jsonData,          \* the data object of generateJSON
    exportText,        \* the string returned
    exportPc,          \* "start", "json", "xml"
    \* concurrent requests through the per-session HTTP handler (api/mcp.ts)
    instances,         \* the registry: session id -> instance, 0 when it has none
    pairs,             \* the Server/transport pairs created: the session id of each
    connected,         \* the pairs whose server.connect(transport) has completed
    isNew,             \* instance.isNew of each pair
    reqSession,        \* the session id each request carries
    reqInstance,       \* the instance each request holds, 0 when none
    reqPc,             \* of each request: "start", "connect", "instance", "done", "error"
    \* concurrent requests through the single-transport HTTP handler
    transport,         \* "null" or "created"
    isServerConnected,
    dispatched,        \* the calls of transport.handleRequest: by whom, connected or not
    initFailed,        \* the requests answered 500 by the initialization
    lazyPc,            \* of each request: "start", "connect", "handling", "done", "error"
    \* the preview effect of App
    input,             \* the input state
    mode,              \* "rich" or "plain"
    output,            \* the output state
    isProcessing,
    previews           \* the runs of the effect: input, mode, isActive, how far it got

stripVars == <<stripText, clean, restripped, emphasisI, stripPc>>
inlineVars == <<segs, runs, rtfInline, inlinePc>>
blockVars == <<lines, i, loopPasses, inCodeBlock, codeBlockContent, rtf, elements, blockPc>>
tableVars == <<tableHeaders, tableRows, parsed, tablePc>>
csvVars == <<csvDoc, csv, tableData, csvPc>>
latexVars == <<latexLines, latex, latexPc>>
serverVars == <<srv, request, toolOutput, browserOpen, effects, thrown, result, handlerPc>>
exportVars == <<exportLines, exportTitle, jsonData, exportText, exportPc>>
sessionVars == <<instances, pairs, connected, isNew, reqSession, reqInstance, reqPc>>
lazyVars == <<transport, isServerConnected, dispatched, initFailed, lazyPc>>
appVars == <<input, mode, output, isProcessing, previews>>
vars == <<stripVars, inlineVars, blockVars, tableVars, csvVars, latexVars, serverVars, exportVars, sessionVars, lazyVars, appVars>>

(***************************************************************************)
(* Characters and character classes                                        *)
(***************************************************************************)
NL == "\n"
BS == "\\"
DQ == "\""
\* the backtick, which a TLA+ string literal cannot hold
BT == "bt"

Lower == {"a","b","c","d","e","f","g","h","i","j","k","l","m",
          "n","o","p","q","r","s","t","u","v","w","x","y","z"}
Upper == {"A","B","C","D","E","F","G","H","I","J","K","L","M",
          "N","O","P","Q","R","S","T","U","V","W","X","Y","Z"}
Digit == {"0","1","2","3","4","5","6","7","8","9"}

\* the characters of a string literal
Chars(str) == [p \in 1..Len(str) |-> SubSeq(str, p, p)]

\* a character above code 127 is written "U" followed by its decimal code
NonAscii == {"U160", "U233", "U8364"}
CodeDigits(c) == Tail(Chars(c))

\* a class is a set of characters, possibly negated
Cls(set) == [neg |-> FALSE, set |-> set]
Not(set) == [neg |-> TRUE, set |-> set]
InClass(c, cl) == (c \in cl.set) # cl.neg

LineTerm == {NL, "\r"}
\* U160 is the no-break space, which \s and trim() take as white space
WhiteSpace == {" ", "\t", NL, "\r", "U160"}
ClsSpace == Cls(WhiteSpace)                       \* \s
ClsWord == Cls(Lower \cup Upper \cup Digit \cup {"_"})   \* \w
ClsDigit == Cls(Digit)                            \* \d
ClsDot == Not(LineTerm)                           \* .   (no s flag)
ClsAny == Not({})                                 \* [\s\S], and . with the s flag

(***************************************************************************)
(* Regular expressions: items and the backtracking matcher                 *)
(***************************************************************************)
Item(t, cs, cl, min, max, lazy) ==
    [t |-> t, cs |-> cs, cl |-> cl, min |-> min, max |-> max, lazy |-> lazy]
Lit(cs) == Item("lit", cs, ClsAny, 0, 0, FALSE)
\* greedy run of min..max characters of class cl (max = 0: unbounded)
Run(cl, min, max) == Item("run", <<>>, cl, min, max, FALSE)
\* lazy run
Lazy(cl, min, max) == Item("run", <<>>, cl, min, max, TRUE)
Bol == Item("bol", <<>>, ClsAny, 0, 0, FALSE)     \* ^ with the m flag
Eol == Item("eol", <<>>, ClsAny, 0, 0, FALSE)     \* $ with the m flag
Bos == Item("bos", <<>>, ClsAny, 0, 0, FALSE)     \* ^ without the m flag
Eos == Item("eos", <<>>, ClsAny, 0, 0, FALSE)     \* $ without the m flag

HasPrefixAt(s, pos, cs) ==
    /\ pos + Len(cs) - 1 <= Len(s)
    /\ \A k \in 1..Len(cs) : s[pos + k - 1] = cs[k]

AtLineStart(s, pos) == pos = 1 \/ s[pos - 1] \in LineTerm
AtLineEnd(s, pos) == pos = Len(s) + 1 \/ s[pos] \in LineTerm

MinOf(S) == CHOOSE x \in S : \A y \in S : x <= y
MaxOf(S) == CHOOSE x \in S : \A y \in S : y <= x

\* the longest run of class characters from pos, at most max (0: unbounded)
RunCap(s, pos, max) ==
    IF max # 0 /\ max < Len(s) - pos + 1 THEN max ELSE Len(s) - pos + 1
RunLen(s, pos, cl, max) ==
    CHOOSE n \in 0..RunCap(s, pos, max) :
        /\ \A p \in 0..(n - 1) : InClass(s[pos + p], cl)
        /\ n = RunCap(s, pos, max) \/ ~InClass(s[pos + n], cl)

NoMatch == [ok |-> FALSE, ends |-> <<>>]

\* the d-th count a run tries: greedy runs try the longest first, lazy runs
\* the shortest
RunCount(it, hi, d) == IF it.lazy THEN it.min + d ELSE hi - d

\* MatchItems(re, k, s, pos): items k.. of re matched at pos; ends[j] is the
\* position after item k+j-1.  The first count of a run that lets the rest
\* match wins.
RECURSIVE MatchItems(_, _, _, _)
RECURSIVE MatchRun(_, _, _, _, _)
Matched(end, rest) ==
    IF rest.ok THEN [ok |-> TRUE, ends |-> <<end>> \o rest.ends] ELSE NoMatch
MatchItems(re, k, s, pos) ==
    IF k > Len(re) THEN [ok |-> TRUE, ends |-> <<>>]
    ELSE CASE re[k].t = "lit" ->
                IF HasPrefixAt(s, pos, re[k].cs)
                THEN Matched(pos + Len(re[k].cs), MatchItems(re, k + 1, s, pos + Len(re[k].cs)))
                ELSE NoMatch
           [] re[k].t = "run" ->
                MatchRun(re, k, s, pos, RunLen(s, pos, re[k].cl, re[k].max))
           [] re[k].t = "bol" ->
                IF AtLineStart(s, pos) THEN Matched(pos, MatchItems(re, k + 1, s, pos)) ELSE NoMatch
           [] re[k].t = "eol" ->
                IF AtLineEnd(s, pos) THEN Matched(pos, MatchItems(re, k + 1, s, pos)) ELSE NoMatch
           [] re[k].t = "bos" ->
                IF pos = 1 THEN Matched(pos, MatchItems(re, k + 1, s, pos)) ELSE NoMatch
           [] OTHER ->
                IF pos = Len(s) + 1 THEN Matched(pos, MatchItems(re, k + 1, s, pos)) ELSE NoMatch
\* a candidate (the d-th count of a run, or the d-th alternative) with its match
Try(d, m) == [d |-> d, m |-> m]
NoTry == Try(0, NoMatch)
\* the first candidate that matches
FirstTry(tries) ==
    IF \A t \in tries : ~t.m.ok THEN NoTry
    ELSE CHOOSE t \in tries : t.m.ok /\ \A u \in tries : u.m.ok => t.d <= u.d
RunTry(re, k, s, end, d) == Try(d, Matched(end, MatchItems(re, k + 1, s, end)))
MatchRun(re, k, s, pos, hi) ==
    FirstTry({RunTry(re, k, s, pos + RunCount(re[k], hi, d), d) : d \in 0..(hi - re[k].min)}).m

\* A regular expression is an alternation a1|a2|...: a sequence of
\* alternatives, each a sequence of items.  The first alternative that matches
\* at pos wins.
AltMatch(re, pos, t) ==
    IF ~t.m.ok THEN [ok |-> FALSE, alt |-> 0, ends |-> <<>>, end |-> 0]
    ELSE [ok |-> TRUE, alt |-> t.d, ends |-> t.m.ends,
          end |-> IF re[t.d] = <<>> THEN pos ELSE t.m.ends[Len(re[t.d])]]
MatchAlt(re, s, pos) ==
    AltMatch(re, pos, FirstTry({Try(a, MatchItems(re[a], 1, s, pos)) : a \in 1..Len(re)}))

\* the match of re at pos: [ok, alt, ends, end], end = position after the match
MatchAt(re, s, pos) == MatchAlt(re, s, pos)

\* the positions from pos on where a non-empty match of re starts
MatchStarts(re, s, pos) ==
    {p \in pos..Len(s) : LET m == MatchAt(re, s, p) IN m.ok /\ m.end > p}

\* regex.test(s): a match at some position
Test(re, s) == \E pos \in 1..(Len(s) + 1) : MatchAt(re, s, pos).ok

(***************************************************************************)
(* String.prototype.replace with the g flag                                *)
(***************************************************************************)
\* a replacement template: literal pieces and group references; group k is
\* the text matched by item k of the matching alternative
TLit(cs) == [grp |-> 0, cs |-> cs]
TGrp(k) == [grp |-> k, cs |-> <<>>]

RECURSIVE Flatten(_)
Flatten(ss) ==
    IF Len(ss) = 0 THEN <<>>
    ELSE IF Len(ss) = 1 THEN ss[1]
    ELSE Flatten(SubSeq(ss, 1, Len(ss) \div 2)) \o Flatten(SubSeq(ss, Len(ss) \div 2 + 1, Len(ss)))

GroupText(s, pos, ends, k) ==
    SubSeq(s, IF k = 1 THEN pos ELSE ends[k - 1], ends[k] - 1)

Expand(tpl, s, pos, ends) ==
    Flatten([j \in 1..Len(tpl) |->
                IF tpl[j].grp = 0 THEN tpl[j].cs
                ELSE GroupText(s, pos, ends, tpl[j].grp)])

\* every match, left to right, replaced by the template; a character no
\* match starts at is copied
RECURSIVE ReplaceFrom(_, _, _, _, _)
ReplaceFrom(s, re, tpl, pos, starts) ==
    LET later == {p \in starts : p >= pos} IN
    IF later = {} THEN SubSeq(s, pos, Len(s))
    ELSE LET p == MinOf(later)
             m == MatchAt(re, s, p)
         IN  SubSeq(s, pos, p - 1) \o Expand(tpl, s, p, m.ends)
                 \o ReplaceFrom(s, re, tpl, m.end, starts)

ReplaceAll(s, re, tpl) == ReplaceFrom(s, re, tpl, 1, MatchStarts(re, s, 1))

(***************************************************************************)
(* trim, split, join                                                       *)
(***************************************************************************)
TrimStart(s) == SubSeq(s, RunLen(s, 1, ClsSpace, 0) + 1, Len(s))
TrimEnd(s) ==
    LET n == CHOOSE n \in 0..Len(s) :
                 /\ \A p \in 0..(n - 1) : s[Len(s) - p] \in WhiteSpace
                 /\ n = Len(s) \/ s[Len(s) - n] \notin WhiteSpace
    IN  SubSeq(s, 1, Len(s) - n)
Trim(s) == TrimEnd(TrimStart(s))

\* s.split(sep) for a non-empty literal separator: always at least one part
RECURSIVE SplitFrom(_, _, _, _)
SplitFrom(s, sep, pos, start) ==
    LET starts == {p \in pos..Len(s) : HasPrefixAt(s, p, sep)} IN
    IF starts = {} THEN <<SubSeq(s, start, Len(s))>>
    ELSE LET p == MinOf(starts) IN
         <<SubSeq(s, start, p - 1)>> \o SplitFrom(s, sep, p + Len(sep), p + Len(sep))
Split(s, sep) == SplitFrom(s, sep, 1, 1)

\* parts.join(sep)
Join(parts, sep) ==
    IF parts = <<>> THEN <<>>
    ELSE Flatten([j \in 1..(2 * Len(parts) - 1) |->
                     IF j % 2 = 1 THEN parts[(j + 1) \div 2] ELSE sep])

\* s.includes(sub)
Includes(s, sub) == \E pos \in 1..(Len(s) + 1) : HasPrefixAt(s, pos, sub)
StartsWith(s, pre) == HasPrefixAt(s, 1, pre)
EndsWith(s, suf) == Len(suf) <= Len(s) /\ HasPrefixAt(s, Len(s) - Len(suf) + 1, suf)

\* s.slice(a, -b)
SliceBoth(s, a, b) == SubSeq(s, a + 1, Len(s) - b)

\* array.filter(keep), for a predicate given as the set of kept values
FilterNonEmpty(ss) == SelectSeq(ss, LAMBDA part : part # <<>>)

(***************************************************************************)
(* stripMarkdown: the plain-text stripper                                  *)
(***************************************************************************)
Fence == <<BT, BT, BT>>
\* /```[\s\S]*?```/g
RE_CodeBlock == << <<Lit(Fence), Lazy(ClsAny, 0, 0), Lit(Fence)>> >>
\* /```\w*\n?/g and /```/g, applied to each matched block
RE_FenceOpen == << <<Lit(Fence), Run(ClsWord, 0, 0), Run(Cls({NL}), 0, 1)>> >>
RE_FenceMark == << <<Lit(Fence)>> >>
UnwrapCodeBlock(m) ==
    Trim(ReplaceAll(ReplaceAll(m, RE_FenceOpen, <<>>), RE_FenceMark, <<>>))

\* clean.replace(/```[\s\S]*?```/g, m => ...)
RECURSIVE StripCodeBlocksFrom(_, _, _)
StripCodeBlocksFrom(s, pos, starts) ==
    LET later == {p \in starts : p >= pos} IN
    IF later = {} THEN SubSeq(s, pos, Len(s))
    ELSE LET p == MinOf(later)
             m == MatchAt(RE_CodeBlock, s, p)
         IN  SubSeq(s, pos, p - 1) \o UnwrapCodeBlock(SubSeq(s, p, m.end - 1))
                 \o StripCodeBlocksFrom(s, m.end, starts)
StripCodeBlocks(s) == StripCodeBlocksFrom(s, 1, MatchStarts(RE_CodeBlock, s, 1))

\* /^\|?[\s-:]+\|[\s-:|]*$/gm
RE_TableSeparator ==
    << <<Bol, Run(Cls({"|"}), 0, 1), Run(Cls(WhiteSpace \cup {"-", ":"}), 1, 0),
         Lit(<<"|">>), Run(Cls(WhiteSpace \cup {"-", ":", "|"}), 0, 0), Eol>> >>

\* /^[\s\t]*([*_-])\1{2,}\s*$/gm: the back-reference repeats the first marker
RuleOf(c) == <<Bol, Run(ClsSpace, 0, 0), Lit(<<c>>), Run(Cls({c}), 2, 0),
               Run(ClsSpace, 0, 0), Eol>>
RE_HorizontalRule == <<RuleOf("*"), RuleOf("_"), RuleOf("-")>>
\* /^[\s\t]*[=-]{3,}\s*$/gm
RE_SetextUnderline ==
    << <<Bol, Run(ClsSpace, 0, 0), Run(Cls({"=", "-"}), 3, 0), Run(ClsSpace, 0, 0), Eol>> >>

\* /^[\s\t]*>+\s?/gm
RE_BlockquoteMarker ==
    << <<Bol, Run(ClsSpace, 0, 0), Run(Cls({">"}), 1, 0), Run(ClsSpace, 0, 1)>> >>
\* /^#{1,6}\s+/gm
RE_AtxMarker == << <<Bol, Run(Cls({"#"}), 1, 6), Run(ClsSpace, 1, 0)>> >>

\* /[*_]{n}([^*_]+)[*_]{n}/g for n = 3, 2, 1
RE_Emphasis(n) ==
    << <<Run(Cls({"*", "_"}), n, n), Run(Not({"*", "_"}), 1, 0), Run(Cls({"*", "_"}), n, n)>> >>
\* /~~([^~]+)~~/g
RE_Strike == << <<Lit(<<"~", "~">>), Run(Not({"~"}), 1, 0), Lit(<<"~", "~">>)>> >>

\* a pass of the chain: clean = clean.replace(re, tpl)
Pass(re, tpl) == [re |-> re, tpl |-> tpl]
\* the passes lo..hi of a chain, one after the other (the test on the length
\* has the first half computed before the second half starts)
RECURSIVE ApplyRange(_, _, _, _)
ApplyRange(s, passes, lo, hi) ==
    IF lo > hi THEN s
    ELSE IF lo = hi THEN ReplaceAll(s, passes[lo].re, passes[lo].tpl)
    ELSE LET r == ApplyRange(s, passes, lo, (lo + hi) \div 2) IN
         IF Len(r) >= 0 THEN ApplyRange(r, passes, (lo + hi) \div 2 + 1, hi) ELSE r
ApplyPasses(s, passes) == ApplyRange(s, passes, 1, Len(passes))

\* one pass of the emphasis loop body
EmphasisPass ==
    <<Pass(RE_Emphasis(3), <<TGrp(2)>>), Pass(RE_Emphasis(2), <<TGrp(2)>>),
      Pass(RE_Emphasis(1), <<TGrp(2)>>), Pass(RE_Strike, <<TGrp(2)>>)>>

\* for (let i = 0; i < 3; i++)
EmphasisPasses == 3
EmphasisLoop == Flatten([n \in 1..EmphasisPasses |-> EmphasisPass])

\* /\$\$(.*?)\$\$/gs
RE_BlockMath == << <<Lit(<<"$", "$">>), Lazy(ClsAny, 0, 0), Lit(<<"$", "$">>)>> >>
\* /\$(.*?)\$/g
RE_InlineMath == << <<Lit(<<"$">>), Lazy(ClsDot, 0, 0), Lit(<<"$">>)>> >>
\* /!\[([^\]]*)\]\([^)]+\)/g
RE_Image == << <<Lit(<<"!", "[">>), Run(Not({"]"}), 0, 0), Lit(<<"]", "(">>),
                 Run(Not({")"}), 1, 0), Lit(<<")">>)>> >>
\* /\[([^\]]+)\]\([^)]+\)/g
RE_Link == << <<Lit(<<"[">>), Run(Not({"]"}), 1, 0), Lit(<<"]", "(">>),
                Run(Not({")"}), 1, 0), Lit(<<")">>)>> >>
\* /\[([^\]]+)\]\[[^\]]*\]/g
RE_RefLink == << <<Lit(<<"[">>), Run(Not({"]"}), 1, 0), Lit(<<"]", "[">>),
                   Run(Not({"]"}), 0, 0), Lit(<<"]">>)>> >>
\* /\[[ xX]\]\s+/g
RE_Checkbox == << <<Lit(<<"[">>), Run(Cls({" ", "x", "X"}), 1, 1), Lit(<<"]">>),
                    Run(ClsSpace, 1, 0)>> >>
\* /\[\^[^\]]+\]/g
RE_Footnote == << <<Lit(<<"[", "^">>), Run(Not({"]"}), 1, 0), Lit(<<"]">>)>> >>
\* /\{#[^}]+\}/g
RE_Anchor == << <<Lit(<<"{", "#">>), Run(Not({"}"}), 1, 0), Lit(<<"}">>)>> >>
\* /[~^]([^~^]+)[~^]/g
RE_SubSup == << <<Run(Cls({"~", "^"}), 1, 1), Run(Not({"~", "^"}), 1, 0),
                  Run(Cls({"~", "^"}), 1, 1)>> >>
\* /`([^`]+)`/g
RE_InlineCode == << <<Lit(<<BT>>), Run(Not({BT}), 1, 0), Lit(<<BT>>)>> >>
\* /<[^>]*>/g
RE_HtmlTag == << <<Lit(<<"<">>), Run(Not({">"}), 0, 0), Lit(<<">">>)>> >>
\* /\|/g
RE_Pipe == << <<Lit(<<"|">>)>> >>
\* /\\([\\`*_{}[\]()#+\-.!|~^])/g
EscapableChars == {BS, BT, "*", "_", "{", "}", "[", "]", "(", ")", "#", "+", "-",
                   ".", "!", "|", "~", "^"}
RE_Escaped == << <<Lit(<<BS>>), Run(Cls(EscapableChars), 1, 1)>> >>
\* /\n{3,}/g
RE_BlankRun == << <<Run(Cls({NL}), 3, 0)>> >>

\* .split('\n').map(line => line.trim()).join('\n').replace(/\n{3,}/g, '\n\n').trim()
Normalize(s) ==
    LET ls == Split(s, <<NL>>)
        ts == [j \in 1..Len(ls) |-> Trim(ls[j])]
    IN  Trim(ReplaceAll(Join(ts, <<NL>>), RE_BlankRun, <<TLit(<<NL, NL>>)>>))

\* the passes before the emphasis loop, in the order of the code
BlockPasses ==
    <<Pass(RE_TableSeparator, <<>>), Pass(RE_HorizontalRule, <<>>),
      Pass(RE_SetextUnderline, <<>>), Pass(RE_BlockquoteMarker, <<>>),
      Pass(RE_AtxMarker, <<>>)>>
\* the passes after it
InlinePasses ==
    <<Pass(RE_BlockMath, <<TGrp(2)>>), Pass(RE_InlineMath, <<TGrp(2)>>),
      Pass(RE_Image, <<TGrp(2)>>), Pass(RE_Link, <<TGrp(2)>>),
      Pass(RE_RefLink, <<TGrp(2)>>), Pass(RE_Checkbox, <<>>),
      Pass(RE_Footnote, <<>>), Pass(RE_Anchor, <<>>),
      Pass(RE_SubSup, <<TGrp(2)>>), Pass(RE_InlineCode, <<TGrp(2)>>),
      Pass(RE_HtmlTag, <<>>), Pass(RE_Pipe, <<TLit(<<" ">>)>>),
      Pass(RE_Escaped, <<TGrp(2)>>)>>
\* the whole chain between the code blocks and the final clean up
StripPasses == BlockPasses \o EmphasisLoop \o InlinePasses

stripMarkdown(text) ==
    IF text = <<>> THEN <<>>
    ELSE LET passed == ApplyPasses(StripCodeBlocks(text), StripPasses) IN
         IF Len(passed) >= 0 THEN Normalize(passed) ELSE passed

cleanMarkdownText(t) == stripMarkdown(t)

(***************************************************************************)
(* The inline tokenizer: parseInlineFormatting and parseInlineToRTF        *)
(***************************************************************************)
\* a span: an opening delimiter, one or more characters that are not c, the
\* same delimiter again
Span(delim, c) == <<Lit(delim), Run(Not({c}), 1, 0), Lit(delim)>>

\* /(\$\$.*?\$\$|\$.*?\$|\*\*\*[^*]+\*\*\*|\*\*[^*]+\*\*|\*[^*]+\*|___[^_]+___|__[^_]+__|_[^_]+_|`[^`]+`|<br\s*\/?>)/g
RE_InlineSpan ==
    << <<Lit(Chars("$$")), Lazy(ClsDot, 0, 0), Lit(Chars("$$"))>>,
       <<Lit(Chars("$")), Lazy(ClsDot, 0, 0), Lit(Chars("$"))>>,
       Span(Chars("***"), "*"),
       Span(Chars("**"), "*"),
       Span(Chars("*"), "*"),
       Span(Chars("___"), "_"),
       Span(Chars("__"), "_"),
       Span(Chars("_"), "_"),
       Span(<<BT>>, BT),
       <<Lit(Chars("<br")), Run(ClsSpace, 0, 0), Run(Cls({"/"}), 0, 1), Lit(Chars(">"))>> >>

\* /<br\s*\/?>/i, as used by part.match(...): anywhere in the part, any case
RE_BreakAnyCase ==
    << <<Lit(Chars("<")), Run(Cls({"b", "B"}), 1, 1), Run(Cls({"r", "R"}), 1, 1),
         Run(ClsSpace, 0, 0), Run(Cls({"/"}), 0, 1), Lit(Chars(">"))>> >>

\* text.split(regex) for a regex that is one capture group: the pieces
\* between the matches and the matches, in order
RECURSIVE SplitRegexFrom(_, _, _, _)
SplitRegexFrom(s, re, pos, starts) ==
    LET later == {p \in starts : p >= pos} IN
    IF later = {} THEN <<SubSeq(s, pos, Len(s))>>
    ELSE LET p == MinOf(later)
             m == MatchAt(re, s, p)
         IN  <<SubSeq(s, pos, p - 1), SubSeq(s, p, m.end - 1)>>
                 \o SplitRegexFrom(s, re, m.end, starts)
SplitRegex(s, re) == SplitRegexFrom(s, re, 1, MatchStarts(re, s, 1))

Both(part, d) == StartsWith(part, d) /\ EndsWith(part, d)

\* the chain with the single-star test moved to the front
ClassifyPartStarFirst(part) ==
    IF StartsWith(part, Chars("*")) /\ EndsWith(part, Chars("*"))
    THEN [kind |-> "italic", text |-> SubSeq(part, 2, Len(part) - 1)]
    ELSE [kind |-> "text", text |-> part]

\* the if / else-if chain both tokenizers run on a part: the kind of token
\* and its content
ClassifyPart(part) ==
    CASE Both(part, Chars("$$")) -> [kind |-> "math-block", text |-> SliceBoth(part, 2, 2)]
      [] Both(part, Chars("$")) -> [kind |-> "math-inline", text |-> SliceBoth(part, 1, 1)]
      [] Both(part, Chars("***")) -> [kind |-> "bold-italic", text |-> SliceBoth(part, 3, 3)]
      [] Both(part, Chars("___")) -> [kind |-> "bold-italic", text |-> SliceBoth(part, 3, 3)]
      [] Both(part, Chars("**")) -> [kind |-> "bold", text |-> SliceBoth(part, 2, 2)]
      [] Both(part, Chars("__")) -> [kind |-> "bold", text |-> SliceBoth(part, 2, 2)]
      [] Both(part, Chars("*")) -> [kind |-> "italic", text |-> SliceBoth(part, 1, 1)]
      [] Both(part, Chars("_")) -> [kind |-> "italic", text |-> SliceBoth(part, 1, 1)]
      [] Both(part, <<BT>>) -> [kind |-> "code", text |-> SliceBoth(part, 1, 1)]
      [] Test(RE_BreakAnyCase, part) -> [kind |-> "line-break", text |-> <<>>]
      [] OTHER -> [kind |-> "text", text |-> part]

\* for (const part of parts) { if (!part) continue; ... }
InlineTokens(s) ==
    LET parts == FilterNonEmpty(SplitRegex(s, RE_InlineSpan)) IN
    [j \in 1..Len(parts) |-> ClassifyPart(parts[j])]

\* a TextRun is its kind (the formatting properties it carries) and its text
parseInlineFormatting(s) ==
    LET rs == InlineTokens(s) IN
    IF Len(rs) > 0 THEN rs ELSE <<[kind |-> "text", text |-> s]>>

encodeRTFChar(c) ==
    IF c \in NonAscii THEN Chars("\\u") \o CodeDigits(c) \o Chars("?")
    ELSE IF c \in {BS, "{", "}"} THEN <<BS, c>>
    ELSE <<c>>
encodeRTFText(str) == Flatten([j \in 1..Len(str) |-> encodeRTFChar(str[j])])

\* the RTF group opened for each kind of token
RTFOpen(kind) ==
    CASE kind \in {"math-block", "math-inline"} -> Chars("{\\i\\cf4\\f2 ")
      [] kind = "bold-italic" -> Chars("{\\b\\i ")
      [] kind = "bold" -> Chars("{\\b ")
      [] kind = "italic" -> Chars("{\\i ")
      [] kind = "code" -> Chars("{\\f1\\highlight3 ")
      [] OTHER -> <<>>

RTFOfToken(tok) ==
    CASE tok.kind = "line-break" -> Chars("\\line ")
      [] tok.kind = "text" -> encodeRTFText(tok.text)
      [] OTHER -> RTFOpen(tok.kind) \o encodeRTFText(tok.text) \o Chars("}")

parseInlineToRTF(s) ==
    LET toks == InlineTokens(s) IN
    Flatten([j \in 1..Len(toks) |-> RTFOfToken(toks[j])])

(***************************************************************************)
(* The table extractor: parseMarkdownTable and generateCSV                 *)
(***************************************************************************)
\* line.split('|').map(c => c.trim()).filter(c => c)
SplitCells(line) ==
    LET cells == Split(line, <<"|">>) IN
    FilterNonEmpty([j \in 1..Len(cells) |-> Trim(cells[j])])

\* lines.filter(line => line.trim())
FilterNonBlank(ls) == SelectSeq(ls, LAMBDA l : Trim(l) # <<>>)

\* for (let i = 2; i < lines.length; i++) { ...; if (cells.length > 0) rows.push(cells) }
RECURSIVE TableRowsFrom(_, _)
TableRowsFrom(ls, n) ==
    IF n >= Len(ls) THEN <<>>
    ELSE LET cells == SplitCells(ls[n + 1]) IN
         (IF Len(cells) > 0 THEN <<cells>> ELSE <<>>) \o TableRowsFrom(ls, n + 1)

\* the first data line is lines[2]: lines[0] is the header, lines[1] is skipped
FirstDataLine == 2

parseMarkdownTable(tableText) ==
    LET ls == FilterNonBlank(Split(Trim(tableText), <<NL>>)) IN
    IF Len(ls) < 2 THEN [headers |-> <<>>, rows |-> <<>>]
    ELSE [headers |-> SplitCells(ls[1]), rows |-> TableRowsFrom(ls, FirstDataLine)]

\* /\|.*\|/g
RE_PipeSpan == << <<Lit(<<"|">>), Run(ClsDot, 0, 0), Lit(<<"|">>)>> >>

\* content.match(regex) with the g flag: every match, left to right
RECURSIVE MatchAllFrom(_, _, _, _)
MatchAllFrom(s, re, pos, starts) ==
    LET later == {p \in starts : p >= pos} IN
    IF later = {} THEN <<>>
    ELSE LET p == MinOf(later)
             m == MatchAt(re, s, p)
         IN  <<SubSeq(s, p, m.end - 1)>> \o MatchAllFrom(s, re, m.end, starts)
MatchAll(s, re) == MatchAllFrom(s, re, 1, MatchStarts(re, s, 1))

\* `"${c.replace(/"/g, '""')}"`
RE_Quote == << <<Lit(<<DQ>>)>> >>
QuoteCell(c) == <<DQ>> \o ReplaceAll(c, RE_Quote, <<TLit(<<DQ, DQ>>)>>) \o <<DQ>>

\* the cells of one extracted line, stripped
StrippedCells(line) ==
    LET cells == SplitCells(line) IN
    [j \in 1..Len(cells) |-> stripMarkdown(cells[j])]

\* the body of tableLines.forEach: what one line adds to csv
CSVLine(line) ==
    IF Includes(line, Chars("---")) THEN <<>>
    ELSE LET cells == StrippedCells(line) IN
         IF Len(cells) > 0
         THEN Join([j \in 1..Len(cells) |-> QuoteCell(cells[j])], Chars(",")) \o <<NL>>
         ELSE <<>>

generateCSV(content) ==
    LET tableLines == MatchAll(content, RE_PipeSpan) IN
    Flatten([j \in 1..Len(tableLines) |-> CSVLine(tableLines[j])])

(***************************************************************************)
(* parseMarkdownToTableData                                                *)
(***************************************************************************)
\* the body of lines.forEach: the row one line of a table paragraph adds
TableDataOfLine(line) ==
    IF Includes(line, Chars("---")) THEN <<>>
    ELSE IF Len(StrippedCells(line)) > 0 THEN <<StrippedCells(line)>> ELSE <<>>
\* the lines of a paragraph: para.trim().split('\n')
ParagraphLines(para) == Split(Trim(para), <<NL>>)
\* lines.some(l => l.includes('|'))
IsTable(ls) == \E j \in 1..Len(ls) : Includes(ls[j], <<"|">>)
\* the body of paragraphs.forEach: the rows one paragraph adds
TableDataOfParagraph(para) ==
    IF IsTable(ParagraphLines(para))
    THEN Flatten([j \in 1..Len(ParagraphLines(para)) |-> TableDataOfLine(ParagraphLines(para)[j])])
    ELSE IF stripMarkdown(para) # <<>> THEN << <<stripMarkdown(para)>> >> ELSE <<>>
parseMarkdownToTableData(content) ==
    Flatten([p \in 1..Len(Split(content, <<NL, NL>>)) |->
                TableDataOfParagraph(Split(content, <<NL, NL>>)[p])])

(***************************************************************************)
(* parseMarkdownToLaTeX                                                    *)
(***************************************************************************)
\* /^# (.*)$/gm, /^## (.*)$/gm, /^### (.*)$/gm
RE_Atx(marker) == << <<Bol, Lit(marker), Run(ClsDot, 0, 0), Eol>> >>
\* /\*\*(.*)\*\*/g and /\*(.*)\*/g
RE_Stars(d) == << <<Lit(d), Run(ClsDot, 0, 0), Lit(d)>> >>
\* /^-\s(.*)$/gm
RE_Bullet == << <<Bol, Lit(Chars("-")), Run(ClsSpace, 1, 1), Run(ClsDot, 0, 0), Eol>> >>
\* /\\end{itemize}\n\\begin{itemize}/g
RE_ItemizeSeam == << <<Lit(Chars("\\end{itemize}\n\\begin{itemize}"))>> >>

\* a command wrapping a group: \name{$k}
Command(name, k) == <<TLit(<<BS>> \o Chars(name) \o Chars("{")), TGrp(k), TLit(Chars("}"))>>

LaTeXSpecials == {"_", "%", "$", "&", "~", "^", BS, "{", "}"}
\* processed.replace(/([_%$&~^\\{}])/g, (m) => m === '\\' ? m : `\\${m}`)
EscapeLaTeXChar(c) == IF c \in LaTeXSpecials /\ c # BS THEN <<BS, c>> ELSE <<c>>
EscapeLaTeX(s) == Flatten([j \in 1..Len(s) |-> EscapeLaTeXChar(s[j])])
\* /[*#`|]/g
RE_Artifact == << <<Run(Cls({"*", "#", BT, "|"}), 1, 1)>> >>

\* the replacements before the escaping pass, in the order of the code
LatexPasses ==
    <<Pass(RE_Atx(Chars("# ")), Command("section", 3)),
      Pass(RE_Atx(Chars("## ")), Command("subsection", 3)),
      Pass(RE_Atx(Chars("### ")), Command("subsubsection", 3)),
      Pass(RE_Stars(Chars("**")), Command("textbf", 2)),
      Pass(RE_Stars(Chars("*")), Command("textit", 2)),
      Pass(RE_BlockMath,
           <<TLit(Chars("\\begin{equation}\n")), TGrp(2), TLit(Chars("\n\\end{equation}"))>>),
      Pass(RE_InlineMath, <<TLit(Chars("$ ")), TGrp(2), TLit(Chars(" $"))>>),
      Pass(RE_Bullet,
           <<TLit(Chars("\\begin{itemize}\n\\item ")), TGrp(4), TLit(Chars("\n\\end{itemize}"))>>),
      Pass(RE_ItemizeSeam, <<>>)>>

parseMarkdownToLaTeX(content) ==
    LET passed == ApplyPasses(content, LatexPasses) IN
    IF Len(passed) >= 0 THEN ReplaceAll(EscapeLaTeX(passed), RE_Artifact, <<>>) ELSE passed

(***************************************************************************)
(* The block renderers: what parseMarkdownToRTF and parseMarkdownToDocx    *)
(* compute about one line                                                  *)
(***************************************************************************)
\* /^(\*\*\*|---|__{3,})\s*$/
RE_RuleLine ==
    << <<Bos, Lit(Chars("***")), Run(ClsSpace, 0, 0), Eos>>,
       <<Bos, Lit(Chars("---")), Run(ClsSpace, 0, 0), Eos>>,
       <<Bos, Lit(Chars("_")), Run(Cls({"_"}), 3, 0), Run(ClsSpace, 0, 0), Eos>> >>
\* /^={3,}\s*$/ and /^-{3,}\s*$/
RE_Underline(c) == << <<Bos, Run(Cls({c}), 3, 0), Run(ClsSpace, 0, 0), Eos>> >>
\* /^>+/ and /^>+\s*/
RE_QuoteMarks == << <<Bos, Run(Cls({">"}), 1, 0)>> >>
RE_QuotePrefix == << <<Bos, Run(Cls({">"}), 1, 0), Run(ClsSpace, 0, 0)>> >>
\* /^(\s*)([-*+]\s+)/
RE_BulletItem ==
    << <<Bos, Run(ClsSpace, 0, 0), Run(Cls({"-", "*", "+"}), 1, 1), Run(ClsSpace, 1, 0)>> >>
\* /^(\s*)(\d+\.\s+)/
RE_NumberedItem ==
    << <<Bos, Run(ClsSpace, 0, 0), Run(ClsDigit, 1, 0), Lit(Chars(".")),
         Run(ClsSpace, 1, 0)>> >>

\* the ATX marker a trimmed line starts with: 0 when none
HeadingLevel(trimmed) ==
    CASE StartsWith(trimmed, Chars("# ")) -> 1
      [] StartsWith(trimmed, Chars("## ")) -> 2
      [] StartsWith(trimmed, Chars("### ")) -> 3
      [] StartsWith(trimmed, Chars("#### ")) -> 4
      [] OTHER -> 0

\* the setext level the line after lines[i] gives lines[i]: 0 when none
SetextLevel(ls, n) ==
    IF n + 1 < Len(ls)
    THEN LET nextLine == Trim(ls[n + 2]) IN
         CASE Test(RE_Underline("="), nextLine) -> 1
           [] Test(RE_Underline("-"), nextLine) -> 2
           [] OTHER -> 0
    ELSE 0

\* the branch of the loop body taken for lines[i], in the order of the code
BranchOf(ls, n, inCode) ==
    LET line == ls[n + 1]
        trimmed == Trim(line) IN
    CASE Test(RE_RuleLine, trimmed) -> "rule"
      [] StartsWith(trimmed, Fence) -> "fence"
      [] inCode -> "code-line"
      [] SetextLevel(ls, n) > 0 -> "setext"
      [] Includes(trimmed, <<"|">>) /\ StartsWith(trimmed, <<"|">>) -> "table"
      [] trimmed = <<>> -> "blank"
      [] HeadingLevel(trimmed) > 0 -> "heading"
      [] StartsWith(trimmed, <<">">>) -> "blockquote"
      [] Test(RE_BulletItem, line) -> "bullet"
      [] Test(RE_NumberedItem, line) -> "numbered"
      [] OTHER -> "paragraph"

\* an inner while that collects no line
TableEndStuck(ls, n) == n
\* while (i < lines.length && lines[i].trim().includes('|')) i++: where it stops
RECURSIVE TableEnd(_, _)
TableEnd(ls, n) ==
    IF n < Len(ls) /\ Includes(Trim(ls[n + 1]), <<"|">>) THEN TableEnd(ls, n + 1) ELSE n

\* the text of a blockquote line and the count of its leading markers
QuoteLevel(trimmed) == MatchAt(RE_QuoteMarks, trimmed, 1).end - 1
QuoteText(trimmed) == SubSeq(trimmed, MatchAt(RE_QuotePrefix, trimmed, 1).end, Len(trimmed))

\* Math.floor(match[1].length / 4), match[2] and the text after the marker
ItemIndent(re, line) == Len(GroupText(line, 1, MatchAt(re, line, 1).ends, 2)) \div 4
ItemMarker(re, line) ==
    LET m == MatchAt(re, line, 1) IN SubSeq(line, m.ends[2], m.end - 1)
ItemText(re, line) == SubSeq(line, MatchAt(re, line, 1).end, Len(line))

\* a number in a template literal
RECURSIVE NumberToChars(_)
NumberToChars(n) ==
    LET d == <<"0", "1", "2", "3", "4", "5", "6", "7", "8", "9">> IN
    IF n < 10 THEN <<d[n + 1]>> ELSE NumberToChars(n \div 10) \o <<d[(n % 10) + 1]>>

(***************************************************************************)
(* What parseMarkdownToRTF appends for each block                          *)
(***************************************************************************)
RTFRule == Chars("\\pard\\sb200\\sa200\\brdrb\\brdrs\\brdrw10\\brdrcf6\\par\n")
RTFCode(buffer) ==
    Chars("{\\pard\\f1\\fs20\\highlight3 ") \o encodeRTFText(Join(buffer, Chars("\\line\n")))
        \o Chars("\\par}\n")
RTFHeadingOpen(level) ==
    CASE level = 1 -> Chars("{\\pard\\b\\fs40\\sb400\\sa200 ")
      [] level = 2 -> Chars("{\\pard\\b\\fs32\\sb300\\sa150 ")
      [] level = 3 -> Chars("{\\pard\\b\\fs28\\sb250\\sa100 ")
      [] OTHER -> Chars("{\\pard\\b\\fs26\\sb200\\sa100 ")
RTFHeading(level, t) == RTFHeadingOpen(level) \o parseInlineToRTF(t) \o Chars("\\par}\n")
RTFBlank == Chars("\\pard\\sa100\\par\n")
RTFQuote(trimmed) ==
    Chars("{\\pard\\li") \o NumberToChars(QuoteLevel(trimmed) * 720) \o Chars("\\cf2\\i\\sa100 ")
        \o parseInlineToRTF(QuoteText(trimmed)) \o Chars("\\par}\n")
RTFBullet(line) ==
    Chars("{\\pard\\li") \o NumberToChars((ItemIndent(RE_BulletItem, line) + 1) * 360)
        \o Chars("\\fi-360\\'b7\\tab ") \o parseInlineToRTF(ItemText(RE_BulletItem, line))
        \o Chars("\\par}\n")
RTFNumbered(line) ==
    Chars("{\\pard\\li") \o NumberToChars((ItemIndent(RE_NumberedItem, line) + 1) * 360)
        \o Chars("\\fi-360 ") \o ItemMarker(RE_NumberedItem, line) \o Chars("\\tab ")
        \o parseInlineToRTF(ItemText(RE_NumberedItem, line)) \o Chars("\\par}\n")
RTFParagraph(trimmed) == Chars("{\\pard\\sa150 ") \o parseInlineToRTF(trimmed) \o Chars("\\par}\n")

cellWidth == 3000
RTFCellBorders ==
    Chars("\\clbrdrt\\brdrs\\brdrw10\\clbrdrl\\brdrs\\brdrw10\\clbrdrb\\brdrs\\brdrw10\\clbrdrr\\brdrs\\brdrw10\\cellx")
\* one row: its cell definitions, then its cells
RTFRow(cells, shade, open, close) ==
    Chars("\\trowd\\trgaph108\\trleft-108")
        \o Flatten([j \in 1..Len(cells) |-> shade \o RTFCellBorders \o NumberToChars(j * cellWidth)])
        \o Chars("\\pard\\intbl\\ql ")
        \o Flatten([j \in 1..Len(cells) |-> open \o parseInlineToRTF(cells[j]) \o close])
        \o Chars("\\row\n")
RTFTable(t) ==
    RTFRow(t.headers, Chars("\\clcbpat5"), Chars("{\\b "), Chars("}\\cell "))
        \o Flatten([r \in 1..Len(t.rows) |-> RTFRow(t.rows[r], <<>>, <<>>, Chars("\\cell "))])
        \o Chars("\\pard\\sa200\\par\n")

(***************************************************************************)
(* What parseMarkdownToDocx pushes for each block: an element is its kind, *)
(* its level, its runs and, for a table, its rows of cells                 *)
(***************************************************************************)
Element(block, level, children) ==
    [block |-> block, level |-> level, children |-> children, table |-> <<>>]
TextRun(kind, t) == [kind |-> kind, text |-> t]
DocxRule == Element("rule", 0, <<>>)
DocxCode(buffer) == Element("code", 0, <<TextRun("code", Join(buffer, <<NL>>))>>)
DocxHeading(level, t) == Element("heading", level, parseInlineFormatting(t))
DocxBlank == Element("blank", 0, <<>>)
DocxSpacer == Element("spacer", 0, <<>>)
DocxQuote(trimmed) ==
    Element("blockquote", QuoteLevel(trimmed),
            <<TextRun("italic", cleanMarkdownText(QuoteText(trimmed)))>>)
DocxBullet(line) ==
    Element("bullet", ItemIndent(RE_BulletItem, line),
            parseInlineFormatting(ItemText(RE_BulletItem, line)))
DocxNumbered(line) ==
    Element("numbered", ItemIndent(RE_NumberedItem, line),
            parseInlineFormatting(ItemText(RE_NumberedItem, line)))
DocxParagraph(line) ==
    Element("paragraph", 0,
            parseInlineFormatting(Trim(line))
                \o (IF EndsWith(line, Chars("  ")) THEN <<TextRun("line-break", <<>>)>> ELSE <<>>))
createDocxTable(headers, rows) ==
    [block |-> "table", level |-> 0, children |-> <<>>,
     table |-> (IF Len(headers) > 0
                THEN << [j \in 1..Len(headers) |-> <<TextRun("bold", cleanMarkdownText(headers[j]))>>] >>
                ELSE <<>>)
               \o [r \in 1..Len(rows) |->
                      [j \in 1..Len(rows[r]) |-> parseInlineFormatting(rows[r][j])]]]

(***************************************************************************)
(* handleOutput: the texts it returns                                      *)
(***************************************************************************)
\* JSON.stringify of a string
JsonEscapeChar(c) ==
    CASE c = DQ -> <<BS, DQ>>
      [] c = BS -> <<BS, BS>>
      [] c = NL -> <<BS, "n">>
      [] OTHER -> <<c>>
JsonString(cs) == <<DQ>> \o Flatten([j \in 1..Len(cs) |-> JsonEscapeChar(cs[j])]) \o <<DQ>>
JsonField(key, value) == [key |-> key, value |-> value]
\* JSON.stringify(object, null, 2) of an object of scalar fields
JsonObject(fields) ==
    Chars("{\n")
        \o Join([j \in 1..Len(fields) |->
                    Chars("  ") \o JsonString(Chars(fields[j].key)) \o Chars(": ")
                        \o fields[j].value],
                Chars(",\n"))
        \o Chars("\n}")

\* the UTF-8 length of a string
\* (one byte below code 128, two below 2048, three for the others)
ByteLength(cs) ==
    Len(cs) + Cardinality({k \in 1..Len(cs) : cs[k] \in NonAscii})
            + Cardinality({k \in 1..Len(cs) : cs[k] = "U8364"})

\* Buffer.toString('base64'): three bytes to four characters, padded with =
Base64Alphabet == Chars("ABCDEFGHIJKLMNOPQRSTUVWXYZabcdefghijklmnopqrstuvwxyz0123456789+/")
RECURSIVE Base64(_)
Base64(bytes) ==
    LET Sextet(v) == Base64Alphabet[v + 1] IN
    CASE Len(bytes) = 0 -> <<>>
      [] Len(bytes) = 1 ->
            <<Sextet(bytes[1] \div 4), Sextet((bytes[1] % 4) * 16), "=", "=">>
      [] Len(bytes) = 2 ->
            <<Sextet(bytes[1] \div 4), Sextet((bytes[1] % 4) * 16 + bytes[2] \div 16),
              Sextet((bytes[2] % 16) * 4), "=">>
      [] OTHER ->
            <<Sextet(bytes[1] \div 4), Sextet((bytes[1] % 4) * 16 + bytes[2] \div 16),
              Sextet((bytes[2] % 16) * 4 + bytes[3] \div 64), Sextet(bytes[3] % 64)>>
                \o Base64(SubSeq(bytes, 4, Len(bytes)))

\* String.prototype.toUpperCase on ASCII letters
ToUpperCase(cs) ==
    LET lower == Chars("abcdefghijklmnopqrstuvwxyz")
        upper == Chars("ABCDEFGHIJKLMNOPQRSTUVWXYZ")
        Up(c) == IF \E k \in 1..26 : lower[k] = c
                 THEN upper[CHOOSE k \in 1..26 : lower[k] = c] ELSE c
    IN  [j \in 1..Len(cs) |-> Up(cs[j])]

\* the length of the base64 preview
PreviewLength == 100

\* a || b on strings
OrElse(a, b) == IF a # <<>> THEN a ELSE b

\* the report without the message of the error
SaveErrorTextNoMessage(message) == Chars("Error saving to file")

\* `Error saving to file: ${err.message}`
SaveErrorText(message) == Chars("Error saving to file: ") \o Chars(message)
\* the JSON returned after mkdir, writeFile and stat
SavedText(outputPath, size, format) ==
    JsonObject(<<JsonField("success", Chars("true")),
                 JsonField("message", JsonString(Chars("Successfully saved to ") \o outputPath)),
                 JsonField("file_path", JsonString(outputPath)),
                 JsonField("file_size_bytes", NumberToChars(size)),
                 JsonField("format", JsonString(OrElse(format, Chars("unknown"))))>>)
\* the summary with the whole base64 text as its preview
SummaryTextWholePreview(bytes, optFormat, description) ==
    JsonObject(<<JsonField("success", Chars("true")),
                 JsonField("format", JsonString(OrElse(optFormat, Chars("binary")))),
                 JsonField("file_size_bytes", NumberToChars(Len(bytes))),
                 JsonField("description", JsonString(description)),
                 JsonField("hint", JsonString(Chars("This is a binary file format. To save the file, call this tool again with the 'output_path' parameter."))),
                 JsonField("base64_preview", JsonString(Base64(bytes) \o Chars("..."))),
                 JsonField("full_base64_length", NumberToChars(Len(Base64(bytes))))>>)

\* the JSON returned for a Buffer without an output path
SummaryText(bytes, optFormat, description) ==
    LET format == OrElse(optFormat, Chars("binary"))
        b64 == Base64(bytes) IN
    JsonObject(<<JsonField("success", Chars("true")),
                 JsonField("format", JsonString(format)),
                 JsonField("file_size_bytes", NumberToChars(Len(bytes))),
                 JsonField("description",
                           JsonString(OrElse(description,
                               Chars("Generated ") \o ToUpperCase(format) \o Chars(" binary content")))),
                 JsonField("hint", JsonString(Chars("This is a binary file format. To save the file, call this tool again with the 'output_path' parameter."))),
                 JsonField("base64_preview",
                           JsonString(SubSeq(b64, 1, IF Len(b64) < PreviewLength THEN Len(b64) ELSE PreviewLength)
                                          \o Chars("..."))),
                 JsonField("full_base64_length", NumberToChars(Len(b64)))>>)
\* `Error: ${error.message}`
ErrorText(message) == Chars("Error: ") \o message

(***************************************************************************)
(* generateJSON and generateXML                                            *)
(***************************************************************************)
\* title: string = 'document'
DefaultTitle == Chars("document")
\* content.split('\n\n').map(block => stripMarkdown(block))
StructuredContent(content) ==
    LET blocks == Split(content, <<NL, NL>>) IN
    [j \in 1..Len(blocks) |-> stripMarkdown(blocks[j])]
\* the data object of generateJSON; now is new Date().toISOString()
JSONData(content, title, now) ==
    [title |-> title,
     export_timestamp |-> now,
     content |-> stripMarkdown(content),
     structured_content |-> StructuredContent(content)]
\* JSON.stringify(array of strings, null, 2), one level deep in an object
JsonArray(items) ==
    IF items = <<>> THEN Chars("[]")
    ELSE Chars("[\n")
            \o Join([j \in 1..Len(items) |-> Chars("    ") \o JsonString(items[j])], Chars(",\n"))
            \o Chars("\n  ]")
JSONText(data) ==
    JsonObject(<<JsonField("title", JsonString(data.title)),
                 JsonField("export_timestamp", JsonString(data.export_timestamp)),
                 JsonField("content", JsonString(data.content)),
                 JsonField("structured_content", JsonArray(data.structured_content))>>)
generateJSON(content, title, now) == JSONText(JSONData(content, title, now))

generateXML(content, title, now) ==
    Chars("<?xml version=\"1.0\" encoding=\"UTF-8\"?>\n<document>\n")
        \o Chars("  <title>") \o title \o Chars("</title>\n")
        \o Chars("  <content><![CDATA[") \o stripMarkdown(content) \o Chars("]]></content>\n")
        \o Chars("  <metadata>\n    <timestamp>") \o now \o Chars("</timestamp>\n  </metadata>\n")
        \o Chars("</document>")

(***************************************************************************)
(* Inputs                                                                  *)
(***************************************************************************)
\* all sequences over a set, up to a length
RECURSIVE SeqsUpTo(_, _)
SeqsUpTo(S, n) ==
    IF n = 0 THEN {<<>>}
    ELSE LET shorter == SeqsUpTo(S, n - 1) IN
         shorter \cup {Append(q, e) : q \in shorter, e \in S}

(***************************************************************************)
(* The plain-text stripper                                                 *)
(***************************************************************************)
MaxStripLen == 3
StripAlphabet == {">", " ", "a", "*", "#", BS, NL}
StripInputs == SeqsUpTo(StripAlphabet, MaxStripLen)

StripIdle ==
    /\ stripText = <<>>
    /\ clean = <<>>
    /\ restripped = <<>>
    /\ emphasisI = 0
    /\ stripPc = "idle"

StripInit ==
    /\ stripText \in StripInputs
    /\ clean = <<>>
    /\ restripped = <<>>
    /\ emphasisI = 0
    /\ stripPc = "start"

\* clean = stripMarkdown(stripText)
Strip ==
    /\ stripPc = "start"
    /\ clean' = stripMarkdown(stripText)
    /\ stripPc' = "stripped"
    /\ UNCHANGED <<stripText, restripped, emphasisI>>

\* the stripper applied to its own output
Restrip ==
    /\ stripPc = "stripped"
    /\ restripped' = stripMarkdown(clean)
    /\ stripPc' = "restripped"
    /\ UNCHANGED <<stripText, clean, emphasisI>>

\* stripMarkdown is called with a text and reaches the head of its emphasis
\* loop: clean is the text after the code-block and block-level passes, i is 0
EnterEmphasisLoop ==
    /\ stripPc = "idle"
    /\ blockPc = "idle"
    /\ stripText' \in StripInputs \ {<<>>}
    /\ clean' = ApplyPasses(StripCodeBlocks(stripText'), BlockPasses)
    /\ emphasisI' = 0
    /\ stripPc' = "emphasis"
    /\ UNCHANGED restripped

\* for (let i = 0; i < 3; i++) { the four replaces }
EmphasisIteration ==
    /\ stripPc = "emphasis"
    /\ emphasisI < EmphasisPasses
    /\ clean' = ApplyPasses(clean, EmphasisPass)
    /\ emphasisI' = emphasisI + 1
    /\ UNCHANGED <<stripText, restripped, stripPc>>

\* i < 3 is false: the loop is left
EmphasisExit ==
    /\ stripPc = "emphasis"
    /\ emphasisI >= EmphasisPasses
    /\ stripPc' = "emphasized"
    /\ UNCHANGED <<stripText, clean, restripped, emphasisI>>

(***************************************************************************)
(* The inline tokenizer                                                    *)
(***************************************************************************)
MaxInlineSegs == 3
PlainWords == {Chars("a"), Chars(" b ")}
Delimiters == {Chars("***"), Chars("**"), Chars("*"), Chars("_"), Chars("$"), <<BT>>, Chars("~~")}
InlineSegs ==
    {d \o Chars("x") \o d : d \in Delimiters}
        \cup {Chars("**y z**"), Chars("*y z*")}
        \cup PlainWords
        \cup {Chars("<BR>"), Chars("*")}

inlineText == Flatten(segs)

InlineIdle ==
    /\ segs = <<>>
    /\ runs = <<>>
    /\ rtfInline = <<>>
    /\ inlinePc = "idle"

InlineInit ==
    /\ segs \in SeqsUpTo(InlineSegs, MaxInlineSegs)
    /\ runs = <<>>
    /\ rtfInline = <<>>
    /\ inlinePc = "start"

ParseInlineFormatting ==
    /\ inlinePc = "start"
    /\ runs' = parseInlineFormatting(inlineText)
    /\ inlinePc' = "docx"
    /\ UNCHANGED <<segs, rtfInline>>

ParseInlineToRTF ==
    /\ inlinePc = "start"
    /\ rtfInline' = parseInlineToRTF(inlineText)
    /\ inlinePc' = "rtf"
    /\ UNCHANGED <<segs, runs>>

(***************************************************************************)
(* The block renderers.  parseMarkdownToRTF and parseMarkdownToDocx run    *)
(* the same loop, condition for condition, over the same lines: one step   *)
(* of the model is one pass of the loop body in both, appending to rtf     *)
(* what the first appends and to elements what the second pushes.          *)
(***************************************************************************)
MaxLines == 3
DocLines ==
    {<<>>, Fence, Chars("a  "), Chars("---"), Chars("==="), Chars("| a | b |"),
     Chars("|---|---|"), Chars("# h"), Chars("> > q"), Chars("- x"), Chars("1. y"),
     Chars("----"), Chars("___"), Chars(">> q"), <<"a", BS, "{", "U233", "}">>,
     <<"1", ".", "U160", "y">>}

BlockIdle ==
    /\ lines = <<>>
    /\ i = 0
    /\ loopPasses = 0
    /\ inCodeBlock = FALSE
    /\ codeBlockContent = <<>>
    /\ rtf = <<>>
    /\ elements = <<>>
    /\ blockPc = "idle"

\* content.split('\n') has at least one line
BlockInit ==
    /\ lines \in SeqsUpTo(DocLines, MaxLines) \ {<<>>}
    /\ i = 0
    /\ loopPasses = 0
    /\ inCodeBlock = FALSE
    /\ codeBlockContent = <<>>
    /\ rtf = <<>>
    /\ elements = <<>>
    /\ blockPc = "loop"

line == lines[i + 1]
trimmed == Trim(line)
\* the branch the loop body takes now
InBranch(b) == blockPc = "loop" /\ i < Len(lines) /\ BranchOf(lines, i, inCodeBlock) = b

\* rtf += r; elements.push(...es); i += n: the end of a pass
Emit(r, es, n) ==
    /\ rtf' = rtf \o r
    /\ elements' = elements \o es
    /\ i' = i + n
    /\ loopPasses' = loopPasses + 1
    /\ UNCHANGED <<lines, blockPc>>

HorizontalRule ==
    /\ InBranch("rule")
    /\ Emit(RTFRule, <<DocxRule>>, 1)
    /\ UNCHANGED <<inCodeBlock, codeBlockContent>>

OpenFence ==
    /\ InBranch("fence")
    /\ ~inCodeBlock
    /\ inCodeBlock' = TRUE
    /\ Emit(<<>>, <<>>, 1)
    /\ UNCHANGED codeBlockContent

CloseFence ==
    /\ InBranch("fence")
    /\ inCodeBlock
    /\ Emit(RTFCode(codeBlockContent), <<DocxCode(codeBlockContent)>>, 1)
    /\ codeBlockContent' = <<>>
    /\ inCodeBlock' = FALSE

CodeLine ==
    /\ InBranch("code-line")
    /\ codeBlockContent' = Append(codeBlockContent, line)
    /\ Emit(<<>>, <<>>, 1)
    /\ UNCHANGED inCodeBlock

SetextHeading ==
    /\ InBranch("setext")
    /\ LET level == SetextLevel(lines, i) IN
       Emit(RTFHeading(level, trimmed), <<DocxHeading(level, trimmed)>>, 2)
    /\ UNCHANGED <<inCodeBlock, codeBlockContent>>

\* the lines the inner while collects, then the table when there is one
Table ==
    /\ InBranch("table")
    /\ LET tableLines == SubSeq(lines, i + 1, TableEnd(lines, i))
           t == parseMarkdownTable(Join(tableLines, <<NL>>)) IN
       IF Len(tableLines) >= 2 /\ Len(t.headers) > 0
       THEN Emit(RTFTable(t), <<createDocxTable(t.headers, t.rows), DocxSpacer>>,
                 Len(tableLines))
       ELSE Emit(<<>>, <<>>, Len(tableLines))
    /\ UNCHANGED <<inCodeBlock, codeBlockContent>>

BlankLine ==
    /\ InBranch("blank")
    /\ Emit(RTFBlank, <<DocxBlank>>, 1)
    /\ UNCHANGED <<inCodeBlock, codeBlockContent>>

Heading ==
    /\ InBranch("heading")
    /\ LET level == HeadingLevel(trimmed)
           t == SubSeq(trimmed, level + 2, Len(trimmed)) IN
       Emit(RTFHeading(level, t), <<DocxHeading(level, t)>>, 1)
    /\ UNCHANGED <<inCodeBlock, codeBlockContent>>

Blockquote ==
    /\ InBranch("blockquote")
    /\ Emit(RTFQuote(trimmed), <<DocxQuote(trimmed)>>, 1)
    /\ UNCHANGED <<inCodeBlock, codeBlockContent>>

BulletItem ==
    /\ InBranch("bullet")
    /\ Emit(RTFBullet(line), <<DocxBullet(line)>>, 1)
    /\ UNCHANGED <<inCodeBlock, codeBlockContent>>

NumberedItem ==
    /\ InBranch("numbered")
    /\ Emit(RTFNumbered(line), <<DocxNumbered(line)>>, 1)
    /\ UNCHANGED <<inCodeBlock, codeBlockContent>>

Paragraph ==
    /\ InBranch("paragraph")
    /\ Emit(RTFParagraph(trimmed), <<DocxParagraph(line)>>, 1)
    /\ UNCHANGED <<inCodeBlock, codeBlockContent>>

\* one line for each branch of the loop body
MaxLoopLines == 3
LoopLines ==
    {<<>>, Fence, Chars("a  "), Chars("---"), Chars("| a | b |"), Chars("# h"),
     Chars(">> q"), Chars("- x"), Chars("1. y")}

\* a renderer is called with a content and reaches the head of its loop
EnterLoop ==
    /\ blockPc = "idle"
    /\ stripPc = "idle"
    /\ lines' \in SeqsUpTo(LoopLines, MaxLoopLines) \ {<<>>}
    /\ blockPc' = "loop"
    /\ UNCHANGED <<i, loopPasses, inCodeBlock, codeBlockContent, rtf, elements>>

\* fences and the lines between them
MaxFenceLines == 4
FenceLines == {Fence, Chars("a"), <<"b", BS>>}

\* a renderer is called with a content of fenced code and reaches the head
\* of its loop
EnterFencedLoop ==
    /\ blockPc = "idle"
    /\ lines' \in SeqsUpTo(FenceLines, MaxFenceLines) \ {<<>>}
    /\ blockPc' = "loop"
    /\ UNCHANGED <<i, loopPasses, inCodeBlock, codeBlockContent, rtf, elements>>

\* the loop ends: return rtf / return elements
Return ==
    /\ blockPc = "loop"
    /\ i >= Len(lines)
    /\ blockPc' = "done"
    /\ UNCHANGED <<lines, i, loopPasses, inCodeBlock, codeBlockContent, rtf, elements>>

(***************************************************************************)
(* parseMarkdownTable on a well-formed pipe table: a header row, a         *)
(* separator row and data rows of as many cells as the header              *)
(***************************************************************************)
MaxCols == 2
MaxRows == 2
HeaderNames == <<Chars("A"), Chars("B"), Chars("C")>>
CellValues == {<<>>, Chars("1"), Chars("x y")}

\* | c1 | c2 |
RowLine(cells) == Chars("| ") \o Join(cells, Chars(" | ")) \o Chars(" |")
\* |---|---|
SeparatorLine(n) == <<"|">> \o Flatten([j \in 1..n |-> Chars("---|")])
tableText ==
    Join(<<RowLine(tableHeaders), SeparatorLine(Len(tableHeaders))>>
             \o [r \in 1..Len(tableRows) |-> RowLine(tableRows[r])],
         <<NL>>)

TableIdle ==
    /\ tableHeaders = <<>>
    /\ tableRows = <<>>
    /\ parsed = <<>>
    /\ tablePc = "idle"

TableInit ==
    /\ \E n \in 1..MaxCols :
          /\ tableHeaders = SubSeq(HeaderNames, 1, n)
          /\ tableRows \in SeqsUpTo([1..n -> CellValues], MaxRows)
    /\ parsed = <<>>
    /\ tablePc = "start"

ParseMarkdownTable ==
    /\ tablePc = "start"
    /\ parsed' = parseMarkdownTable(tableText)
    /\ tablePc' = "parsed"
    /\ UNCHANGED <<tableHeaders, tableRows>>

(***************************************************************************)
(* generateCSV on a document of table rows, separator rows and prose       *)
(***************************************************************************)
MaxCsvLines == 3
CsvRows ==
    {<<Chars("A"), Chars("B")>>, <<Chars("1"), Chars("2")>>, <<Chars("1"), <<>>>>,
     <<<<"q", DQ, "q">>>>, <<Chars("a---b"), Chars("c")>>}
\* separator rows: cells of dashes and colons
CsvSeparators == {SeparatorLine(2), Chars("|:-:|:-:|"), Chars("|--|--|")}
CsvProse == {<<>>, Chars("text"), Chars("a | b")}
CsvLines ==
    {[kind |-> "row", cells |-> c] : c \in CsvRows}
        \cup {[kind |-> "separator", cells |-> <<t>>] : t \in CsvSeparators}
        \cup {[kind |-> "prose", cells |-> <<t>>] : t \in CsvProse}

\* the text of a line of the document
CsvLineText(l) ==
    CASE l.kind = "row" -> RowLine(l.cells)
      [] OTHER -> l.cells[1]
csvContent == Join([j \in 1..Len(csvDoc) |-> CsvLineText(csvDoc[j])], <<NL>>)

CsvIdle ==
    /\ csvDoc = <<>>
    /\ csv = <<>>
    /\ tableData = <<>>
    /\ csvPc = "idle"

CsvInit ==
    /\ csvDoc \in SeqsUpTo(CsvLines, MaxCsvLines)
    /\ csv = <<>>
    /\ tableData = <<>>
    /\ csvPc = "start"

GenerateCSV ==
    /\ csvPc = "start"
    /\ csv' = generateCSV(csvContent)
    /\ csvPc' = "done"
    /\ UNCHANGED <<csvDoc, tableData>>

ParseMarkdownToTableData ==
    /\ csvPc = "start"
    /\ tableData' = parseMarkdownToTableData(csvContent)
    /\ csvPc' = "data"
    /\ UNCHANGED <<csvDoc, csv>>

(***************************************************************************)
(* parseMarkdownToLaTeX on a document                                      *)
(***************************************************************************)
MaxLatexLines == 3
LatexWords == {Chars("Title"), Chars("text")}
\* # H
AtxLine(h) == Chars("# ") \o h
\* Some *t*.
ItalicLine(t) == Chars("Some *") \o t \o Chars("*.")
LatexDocLines ==
    {AtxLine(h) : h \in LatexWords} \cup {ItalicLine(t) : t \in LatexWords}
        \cup {<<>>, Chars("- item"), Chars("**b**")}
latexContent == Join(latexLines, <<NL>>)

LatexIdle ==
    /\ latexLines = <<>>
    /\ latex = <<>>
    /\ latexPc = "idle"

LatexInit ==
    /\ latexLines \in SeqsUpTo(LatexDocLines, MaxLatexLines)
    /\ latex = <<>>
    /\ latexPc = "start"

ParseMarkdownToLaTeX ==
    /\ latexPc = "start"
    /\ latex' = parseMarkdownToLaTeX(latexContent)
    /\ latexPc' = "done"
    /\ UNCHANGED latexLines

(***************************************************************************)
(* generateJSON and generateXML applied to a document and a title          *)
(***************************************************************************)
MaxExportLines == 4
ExportLines == {Chars("a"), Chars("*b*"), <<>>, Chars(" "), Chars("x]]>")}
Titles == {DefaultTitle, Chars("<x>")}
\* what new Date().toISOString() returns
Timestamps == {Chars("2024-01-01T00:00:00.000Z"), Chars("2024-01-01T00:00:00.001Z")}
\* the handler passes no empty text (if (!markdown) throw ...)
exportContent == Join(exportLines, <<NL>>)

ExportIdle ==
    /\ exportLines = <<>>
    /\ exportTitle = <<>>
    /\ jsonData = <<>>
    /\ exportText = <<>>
    /\ exportPc = "idle"

ExportInit ==
    /\ exportLines \in {ls \in SeqsUpTo(ExportLines, MaxExportLines) : Join(ls, <<NL>>) # <<>>}
    /\ exportTitle \in Titles
    /\ jsonData = <<>>
    /\ exportText = <<>>
    /\ exportPc = "start"

GenerateJSON ==
    /\ exportPc = "start"
    /\ \E now \in Timestamps :
          /\ jsonData' = JSONData(exportContent, exportTitle, now)
          /\ exportText' = JSONText(jsonData')
    /\ exportPc' = "json"
    /\ UNCHANGED <<exportLines, exportTitle>>

GenerateXML ==
    /\ exportPc = "start"
    /\ \E now \in Timestamps :
          exportText' = generateXML(exportContent, exportTitle, now)
    /\ exportPc' = "xml"
    /\ UNCHANGED <<exportLines, exportTitle, jsonData>>

(***************************************************************************)
(* The CallTool handler and handleOutput, in the HTTP server (api/mcp.ts)  *)
(* and in the stdio server.  What the libraries outside the repository do  *)
(* (unified, puppeteer, fs) is a choice over their outcomes.               *)
(***************************************************************************)
Servers == {"http", "stdio"}
\* the tools of the handler taken here: three that convert text, three that render
TextTools == {"convert_to_txt", "convert_to_latex", "convert_to_csv"}
HtmlTools == {"convert_to_html", "convert_to_pdf", "convert_to_image"}
\* the tools that build a Buffer without a browser
BinaryTools == {"convert_to_docx", "convert_to_xlsx"}
ToolNames == TextTools \cup HtmlTools \cup BinaryTools \cup {"list_tools", "no_such_tool"}

\* a property of the arguments: undefined, or a string
Undefined == [defined |-> FALSE, value |-> <<>>]
Value(cs) == [defined |-> TRUE, value |-> cs]
\* the truthiness of a string or undefined
Truthy(v) == v.defined /\ v.value # <<>>

Markdowns == {Chars("# T"), Chars("| A | B |\n|---|---|\n| 1 | 2 |")}
OutputPaths == {Chars("/out/f")}
NoArguments == [present |-> FALSE, markdown |-> Undefined, output_path |-> Undefined]
Arguments ==
    {NoArguments}
        \cup [present : {TRUE},
              markdown : {Undefined, Value(<<>>)} \cup {Value(m) : m \in Markdowns},
              output_path : {Undefined, Value(<<>>)} \cup {Value(q) : q \in OutputPaths}]

RenderErrors == {"Cannot process file"}
BrowserErrors == {"Failed to launch the browser process"}
FsErrors == {"EACCES: permission denied", "ENOSPC: no space left on device"}
\* what unified renders and what the page prints
HtmlBodies == {Chars("<h1>T</h1>")}
\* the bytes the libraries produce: a signature and a body; every file of
\* these formats is longer than the 75 bytes the preview can show
PdfBytes == <<37, 80, 68, 70, 45>> \o [k \in 1..75 |-> (k * 7) % 256]
PngBytes == <<137, 80, 78, 71>> \o [k \in 1..74 |-> (k * 11) % 256]
ZipBytes == <<80, 75, 3, 4>> \o [k \in 1..73 |-> (k * 13) % 256]
PackerErrors == {"Cannot read properties of undefined"}

NoOutput == [buffer |-> FALSE, data |-> <<>>, format |-> <<>>, description |-> <<>>]
StringOutput(cs) == [buffer |-> FALSE, data |-> cs, format |-> <<>>, description |-> <<>>]
BufferOutput(bytes, format, description) ==
    [buffer |-> TRUE, data |-> bytes, format |-> Chars(format), description |-> Chars(description)]
NoResult == [isError |-> FALSE, text |-> <<>>]
NothingThrown == [by |-> "none", message |-> ""]
Failure(text) == [isError |-> TRUE, text |-> text]
Success(text) == [isError |-> FALSE, text |-> text]

ServerIdle ==
    /\ srv = "none"
    /\ request = [name |-> "none", args |-> NoArguments]
    /\ toolOutput = NoOutput
    /\ browserOpen = FALSE
    /\ effects = <<>>
    /\ thrown = NothingThrown
    /\ result = NoResult
    /\ handlerPc = "idle"

ServerInit ==
    /\ srv \in Servers
    /\ request \in [name : ToolNames, args : Arguments]
    /\ toolOutput = NoOutput
    /\ browserOpen = FALSE
    /\ effects = <<>>
    /\ thrown = NothingThrown
    /\ result = NoResult
    /\ handlerPc = "call"

name == request.name
args == request.args
markdown == args.markdown
outputPath == args.output_path

\* the catch of the handler: return { ..., text: `Error: ${error.message}`, isError: true }
Catch(by, message) ==
    /\ thrown' = [by |-> by, message |-> message]
    /\ result' = Failure(ErrorText(Chars(message)))
    /\ handlerPc' = "returned"

\* (args as any).markdown with no arguments object
ThrowNoArguments ==
    /\ handlerPc = "call"
    /\ ~args.present
    /\ Catch("handler", "Cannot read properties of undefined (reading 'markdown')")
    /\ UNCHANGED <<srv, request, toolOutput, browserOpen, effects>>

\* the stdio server lets the name list_tools past the check
MarkdownRequired == ~Truthy(markdown) /\ ~(srv = "stdio" /\ name = "list_tools")

\* if (!markdown) throw new Error("Markdown content is required")
RejectMissingMarkdown ==
    /\ handlerPc = "call"
    /\ args.present
    /\ MarkdownRequired
    /\ Catch("handler", "Markdown content is required")
    /\ UNCHANGED <<srv, request, toolOutput, browserOpen, effects>>

Accepted == handlerPc = "call" /\ args.present /\ ~MarkdownRequired

\* the converter of a text tool, and its name
ConverterOf(tool) ==
    CASE tool = "convert_to_txt" -> IF srv = "http" THEN "cleanMarkdownText" ELSE "stripMarkdown"
      [] tool = "convert_to_latex" -> "parseMarkdownToLaTeX"
      [] OTHER -> "generateCSV"
Convert(tool, text) ==
    CASE tool = "convert_to_txt" -> stripMarkdown(text)
      [] tool = "convert_to_latex" -> parseMarkdownToLaTeX(text)
      [] OTHER -> generateCSV(text)

\* if (name === "convert_to_txt") return handleOutput(cleanMarkdownText(markdown), outputPath)
ConvertText ==
    /\ Accepted
    /\ name \in TextTools
    /\ effects' = Append(effects, ConverterOf(name))
    /\ toolOutput' = StringOutput(Convert(name, markdown.value))
    /\ handlerPc' = "output"
    /\ UNCHANGED <<srv, request, browserOpen, thrown, result>>

\* what handleOutput is told of a Buffer built without a browser
BinaryFormat(tool) == IF tool = "convert_to_docx" THEN "docx" ELSE "xlsx"
BinaryDescription(tool) ==
    IF tool = "convert_to_docx"
    THEN IF srv = "http" THEN "Word document"
         ELSE "Microsoft Word document generated from Markdown"
    ELSE IF srv = "http" THEN "Excel spreadsheet"
         ELSE "Microsoft Excel spreadsheet generated from Markdown tables"

\* convert_to_docx: parseMarkdownToDocx, Packer.toBuffer; convert_to_xlsx:
\* generateXLSXIndex; then handleOutput(buffer, outputPath, {format, description})
ConvertBinary ==
    /\ Accepted
    /\ name \in BinaryTools
    /\ effects' = Append(effects, IF name = "convert_to_docx" THEN "Packer.toBuffer" ELSE "XLSX.write")
    /\ \/ /\ toolOutput' = BufferOutput(ZipBytes, BinaryFormat(name), BinaryDescription(name))
          /\ handlerPc' = "output"
          /\ UNCHANGED <<thrown, result>>
       \/ \E message \in PackerErrors :
             /\ Catch("packer", message)
             /\ UNCHANGED toolOutput
    /\ UNCHANGED <<srv, request, browserOpen>>

\* the page around the rendered body
HtmlDoc(body) ==
    Chars("<!DOCTYPE html><html><head><meta charset=\"utf-8\">")
        \o Chars("<link rel=\"stylesheet\" href=\"https://cdn.jsdelivr.net/npm/katex@0.16.9/dist/katex.min.css\">")
        \o Chars("<style>body { font-family: system-ui; padding: 40px; line-height: 1.6; max-width: 800px; margin: 0 auto; }</style>")
        \o Chars("</head><body>") \o body \o Chars("</body></html>")

\* unified()...process(markdown), then the branch for convert_to_html
RenderHtml ==
    /\ Accepted
    /\ name \in HtmlTools
    /\ effects' = Append(effects, "unified")
    /\ \/ \E body \in HtmlBodies :
             /\ toolOutput' = StringOutput(HtmlDoc(body))
             /\ handlerPc' = IF name = "convert_to_html" THEN "output" ELSE "html"
             /\ UNCHANGED <<thrown, result>>
       \/ \E message \in RenderErrors :
             /\ Catch("unified", message)
             /\ UNCHANGED toolOutput
    /\ UNCHANGED <<srv, request, browserOpen>>

\* getBrowser() / puppeteer.launch()
LaunchBrowser ==
    /\ handlerPc = "html"
    /\ effects' = Append(effects, "puppeteer.launch")
    /\ \/ /\ browserOpen' = TRUE
          /\ handlerPc' = "browser"
          /\ UNCHANGED <<thrown, result>>
       \/ \E message \in BrowserErrors :
             /\ Catch("puppeteer.launch", message)
             /\ UNCHANGED browserOpen
    /\ UNCHANGED <<srv, request, toolOutput>>

\* newPage, setContent, pdf or screenshot, then browser.close() and handleOutput
Capture ==
    /\ handlerPc = "browser"
    /\ effects' = Append(effects, IF name = "convert_to_pdf" THEN "page.pdf" ELSE "page.screenshot")
    /\ \/ /\ toolOutput' =
                IF name = "convert_to_pdf"
                THEN BufferOutput(PdfBytes, "pdf",
                         IF srv = "http" THEN "PDF document"
                         ELSE "PDF document generated from Markdown via Puppeteer")
                ELSE BufferOutput(PngBytes, "png",
                         IF srv = "http" THEN "PNG image"
                         ELSE "PNG image screenshot of the rendered Markdown")
          /\ browserOpen' = FALSE
          /\ handlerPc' = "output"
          /\ UNCHANGED <<thrown, result>>
       \/ \E message \in BrowserErrors :
             /\ Catch("page", message)
             /\ UNCHANGED <<toolOutput, browserOpen>>
    /\ UNCHANGED <<srv, request>>

\* throw new Error(`Unknown tool: ${name}`)
RejectUnknownTool ==
    /\ Accepted
    /\ name \notin TextTools \cup HtmlTools \cup BinaryTools
    /\ Catch("handler", "Unknown tool: " \o name)
    /\ UNCHANGED <<srv, request, toolOutput, browserOpen, effects>>

(***************************************************************************)
(* handleOutput(content, outputPath, options)                              *)
(***************************************************************************)
\* an fs call throws: the catch of handleOutput
SaveFails(by) ==
    \E message \in FsErrors :
        /\ thrown' = [by |-> by, message |-> message]
        /\ result' = Failure(SaveErrorText(message))
        /\ handlerPc' = "returned"

\* no output path: the content, or the summary of a Buffer
ReturnContent ==
    /\ handlerPc = "output"
    /\ ~Truthy(outputPath)
    /\ result' = IF toolOutput.buffer
                 THEN Success(SummaryText(toolOutput.data, toolOutput.format,
                                          toolOutput.description))
                 ELSE Success(toolOutput.data)
    /\ handlerPc' = "returned"
    /\ UNCHANGED <<srv, request, toolOutput, browserOpen, effects, thrown>>

\* await fs.mkdir(path.dirname(outputPath), { recursive: true })
Mkdir ==
    /\ handlerPc = "output"
    /\ Truthy(outputPath)
    /\ effects' = Append(effects, "fs.mkdir")
    /\ \/ handlerPc' = "mkdir" /\ UNCHANGED <<thrown, result>>
       \/ SaveFails("fs.mkdir")
    /\ UNCHANGED <<srv, request, toolOutput, browserOpen>>

\* await fs.writeFile(outputPath, content)
WriteFile ==
    /\ handlerPc = "mkdir"
    /\ effects' = Append(effects, "fs.writeFile")
    /\ \/ handlerPc' = "written" /\ UNCHANGED <<thrown, result>>
       \/ SaveFails("fs.writeFile")
    /\ UNCHANGED <<srv, request, toolOutput, browserOpen>>

\* the size fs.stat reports for what was written
WrittenSize ==
    IF toolOutput.buffer THEN Len(toolOutput.data) ELSE ByteLength(toolOutput.data)

\* const stats = await fs.stat(outputPath); return the confirmation
Stat ==
    /\ handlerPc = "written"
    /\ effects' = Append(effects, "fs.stat")
    /\ \/ /\ result' = Success(SavedText(outputPath.value, WrittenSize, toolOutput.format))
          /\ handlerPc' = "returned"
          /\ UNCHANGED thrown
       \/ SaveFails("fs.stat")
    /\ UNCHANGED <<srv, request, toolOutput, browserOpen>>

(***************************************************************************)
(* The per-session HTTP handler (api/mcp.ts): requests that carry a        *)
(* session id run getOrCreateInstance and then transport.handleRequest.    *)
(* A handler runs without interruption up to an await; at an await the     *)
(* handlers of other requests may run.                                     *)
(***************************************************************************)
MaxRequests == 3
Requests == 1..MaxRequests
SessionIds == {"s1", "s2"}

SessionIdle ==
    /\ instances = <<>>
    /\ pairs = <<>>
    /\ connected = {}
    /\ isNew = <<>>
    /\ reqSession = <<>>
    /\ reqInstance = <<>>
    /\ reqPc = <<>>

\* the registry is empty; each request has arrived with its session id
SessionInit ==
    /\ instances = [s \in SessionIds |-> 0]
    /\ pairs = <<>>
    /\ connected = {}
    /\ isNew = <<>>
    /\ reqSession \in [Requests -> SessionIds]
    /\ reqInstance = [r \in Requests |-> 0]
    /\ reqPc = [r \in Requests |-> "start"]

\* getOrCreateInstance: instances.has(sessionId), the instance is returned
ReuseInstance(r) ==
    /\ reqPc[r] = "start"
    /\ instances[reqSession[r]] # 0
    /\ isNew' = [isNew EXCEPT ![instances[reqSession[r]]] = FALSE]
    /\ reqInstance' = [reqInstance EXCEPT ![r] = instances[reqSession[r]]]
    /\ reqPc' = [reqPc EXCEPT ![r] = "instance"]
    /\ UNCHANGED <<instances, pairs, connected, reqSession>>

\* getOrCreateInstance: no instance; a transport and a Server are created,
\* up to await server.connect(transport)
CreateInstance(r) ==
    /\ reqPc[r] = "start"
    /\ instances[reqSession[r]] = 0
    /\ pairs' = Append(pairs, reqSession[r])
    /\ isNew' = Append(isNew, TRUE)
    /\ reqInstance' = [reqInstance EXCEPT ![r] = Len(pairs) + 1]
    /\ reqPc' = [reqPc EXCEPT ![r] = "connect"]
    /\ UNCHANGED <<instances, connected, reqSession>>

\* server.connect resolves: instances.set(sessionId, instance); return instance
ConnectResolves(r) ==
    /\ reqPc[r] = "connect"
    /\ connected' = connected \cup {reqInstance[r]}
    /\ instances' = [instances EXCEPT ![reqSession[r]] = reqInstance[r]]
    /\ reqPc' = [reqPc EXCEPT ![r] = "instance"]
    /\ UNCHANGED <<pairs, isNew, reqSession, reqInstance>>

\* server.connect rejects: the handler's catch answers 500
ConnectRejects(r) ==
    /\ reqPc[r] = "connect"
    /\ reqPc' = [reqPc EXCEPT ![r] = "error"]
    /\ UNCHANGED <<instances, pairs, connected, isNew, reqSession, reqInstance>>

\* the handler after getOrCreateInstance: instance.transport.handleRequest
HandleRequest(r) ==
    /\ reqPc[r] = "instance"
    /\ reqPc' = [reqPc EXCEPT ![r] = "done"]
    /\ UNCHANGED <<instances, pairs, connected, isNew, reqSession, reqInstance>>

(***************************************************************************)
(* The single-transport HTTP handler: the transport is created and the     *)
(* server connected by the first request, lazily.                          *)
(***************************************************************************)
LazyIdle ==
    /\ transport = "null"
    /\ isServerConnected = FALSE
    /\ dispatched = <<>>
    /\ initFailed = {}
    /\ lazyPc = <<>>

\* let transport = null; let isServerConnected = false; the requests arrive
LazyInit ==
    /\ transport = "null"
    /\ isServerConnected = FALSE
    /\ dispatched = <<>>
    /\ initFailed = {}
    /\ lazyPc = [r \in Requests |-> "start"]

\* await transport.handleRequest(req, res, req.body) is called
CallHandleRequest(r) ==
    dispatched' = Append(dispatched, [request |-> r, connected |-> isServerConnected'])

\* if (!transport): the transport is created, up to await server.connect
InitTransport(r) ==
    /\ lazyPc[r] = "start"
    /\ transport = "null"
    /\ transport' = "created"
    /\ lazyPc' = [lazyPc EXCEPT ![r] = "connect"]
    /\ UNCHANGED <<isServerConnected, dispatched, initFailed>>

\* transport is set: the initialization is skipped and the request handled
SkipInit(r) ==
    /\ lazyPc[r] = "start"
    /\ transport # "null"
    /\ UNCHANGED <<transport, isServerConnected, initFailed>>
    /\ CallHandleRequest(r)
    /\ lazyPc' = [lazyPc EXCEPT ![r] = "handling"]

\* server.connect resolves: isServerConnected = true, the request is handled
InitResolves(r) ==
    /\ lazyPc[r] = "connect"
    /\ isServerConnected' = TRUE
    /\ UNCHANGED <<transport, initFailed>>
    /\ CallHandleRequest(r)
    /\ lazyPc' = [lazyPc EXCEPT ![r] = "handling"]

\* server.connect rejects: the catch answers 500 and returns
InitRejects(r) ==
    /\ lazyPc[r] = "connect"
    /\ initFailed' = initFailed \cup {r}
    /\ lazyPc' = [lazyPc EXCEPT ![r] = "error"]
    /\ UNCHANGED <<transport, isServerConnected, dispatched>>

\* transport.handleRequest resolves, or rejects into the catch
RequestSettles(r) ==
    /\ lazyPc[r] = "handling"
    /\ \E outcome \in {"done", "error"} : lazyPc' = [lazyPc EXCEPT ![r] = outcome]
    /\ UNCHANGED <<transport, isServerConnected, dispatched, initFailed>>

(***************************************************************************)
(* The preview effect of App: useEffect(..., [input, mode]).  A change of  *)
(* input or mode comes from a user event, for which React runs the cleanup *)
(* of the previous run and the new run before anything else.  A run is at  *)
(* "timer" (setTimeout pending), "cleared" (clearTimeout), "converting"    *)
(* (the conversion is awaited), or ended: "empty", "resolved", "rejected", *)
(* and "discarded" for a conversion that settled after the cleanup.        *)
(***************************************************************************)
MaxEdits == 3
AppInputs == {<<>>, Chars(" "), Chars("a"), Chars("b")}
Modes == {"rich", "plain"}

\* setOutput(''), and what markdownToRichHtml / markdownToPlainText resolve
\* with: the conversion of that input in that mode
NoOutputYet == [mode |-> "none", of |-> <<>>]
Converted(text, m) == [mode |-> m, of |-> text]

EffectRun(text, m) == [input |-> text, mode |-> m, isActive |-> TRUE, at |-> "timer"]
\* return () => { isActive = false; clearTimeout(timer); }
Cleanup(run) ==
    [run EXCEPT !.isActive = FALSE, !.at = IF run.at = "timer" THEN "cleared" ELSE run.at]
\* if (isActive)
MayCommitAlways(run) == TRUE
MayCommit(run) == run.isActive

AppIdle ==
    /\ input = <<>>
    /\ mode = "none"
    /\ output = NoOutputYet
    /\ isProcessing = FALSE
    /\ previews = <<>>

\* the state after the first render: the effect has run once
AppInit ==
    /\ input = <<>>
    /\ mode = "rich"
    /\ output = NoOutputYet
    /\ isProcessing = FALSE
    /\ previews = <<EffectRun(<<>>, "rich")>>

\* the dependencies changed: the cleanup of the last run, then a new run
Rerun(text, m) ==
    previews' = Append([previews EXCEPT ![Len(previews)] = Cleanup(previews[Len(previews)])],
                       EffectRun(text, m))

SetInput ==
    /\ Len(previews) <= MaxEdits
    /\ \E text \in AppInputs \ {input} :
          /\ input' = text
          /\ Rerun(text, mode)
    /\ UNCHANGED <<mode, output, isProcessing>>

SetMode ==
    /\ Len(previews) <= MaxEdits
    /\ \E m \in Modes \ {mode} :
          /\ mode' = m
          /\ Rerun(input, m)
    /\ UNCHANGED <<input, output, isProcessing>>

\* the timer fires: an empty input clears the output, any other input
\* starts the conversion
TimerFires(k) ==
    /\ previews[k].at = "timer"
    /\ IF Trim(previews[k].input) = <<>>
       THEN /\ output' = IF MayCommit(previews[k]) THEN NoOutputYet ELSE output
            /\ previews' = [previews EXCEPT ![k].at = "empty"]
            /\ UNCHANGED isProcessing
       ELSE /\ isProcessing' = TRUE
            /\ previews' = [previews EXCEPT ![k].at = "converting"]
            /\ UNCHANGED output
    /\ UNCHANGED <<input, mode>>

\* the conversion resolves: setOutput(result) and, in finally,
\* setIsProcessing(false), each if (isActive)
ConversionResolves(k) ==
    /\ previews[k].at = "converting"
    /\ output' = IF MayCommit(previews[k])
                 THEN Converted(previews[k].input, previews[k].mode) ELSE output
    /\ isProcessing' = IF previews[k].isActive THEN FALSE ELSE isProcessing
    /\ previews' = [previews EXCEPT ![k].at = IF previews[k].isActive THEN "resolved" ELSE "discarded"]
    /\ UNCHANGED <<input, mode>>

\* the conversion rejects: the catch logs, then the same finally
ConversionRejects(k) ==
    /\ previews[k].at = "converting"
    /\ isProcessing' = IF previews[k].isActive THEN FALSE ELSE isProcessing
    /\ previews' = [previews EXCEPT ![k].at = "rejected"]
    /\ UNCHANGED <<input, mode, output>>

(***************************************************************************)
(* The specifications: one per component, the others at rest               *)
(***************************************************************************)
\* a step of this component leaves the others as they are
StripFrame == UNCHANGED <<inlineVars, blockVars, tableVars, csvVars, latexVars, serverVars, exportVars, sessionVars, lazyVars, appVars>>
StripNext ==
    \/ Strip /\ StripFrame
    \/ Restrip /\ StripFrame
StripStart ==
    StripInit /\ InlineIdle /\ BlockIdle /\ TableIdle /\ CsvIdle /\ LatexIdle /\ ServerIdle /\ ExportIdle /\ SessionIdle /\ LazyIdle /\ AppIdle
SpecStrip == StripStart /\ [][StripNext]_vars

\* a step of this component leaves the others as they are
InlineFrame == UNCHANGED <<stripVars, blockVars, tableVars, csvVars, latexVars, serverVars, exportVars, sessionVars, lazyVars, appVars>>
InlineNext ==
    \/ ParseInlineFormatting /\ InlineFrame
    \/ ParseInlineToRTF /\ InlineFrame
InlineStart ==
    StripIdle /\ InlineInit /\ BlockIdle /\ TableIdle /\ CsvIdle /\ LatexIdle /\ ServerIdle /\ ExportIdle /\ SessionIdle /\ LazyIdle /\ AppIdle
SpecInline == InlineStart /\ [][InlineNext]_vars

\* a step of this component leaves the others as they are
BlockFrame == UNCHANGED <<stripVars, inlineVars, tableVars, csvVars, latexVars, serverVars, exportVars, sessionVars, lazyVars, appVars>>
BlockNext ==
    \/ HorizontalRule /\ BlockFrame
    \/ OpenFence /\ BlockFrame
    \/ CloseFence /\ BlockFrame
    \/ CodeLine /\ BlockFrame
    \/ SetextHeading /\ BlockFrame
    \/ Table /\ BlockFrame
    \/ BlankLine /\ BlockFrame
    \/ Heading /\ BlockFrame
    \/ Blockquote /\ BlockFrame
    \/ BulletItem /\ BlockFrame
    \/ NumberedItem /\ BlockFrame
    \/ Paragraph /\ BlockFrame
    \/ Return /\ BlockFrame
BlockStart ==
    StripIdle /\ InlineIdle /\ BlockInit /\ TableIdle /\ CsvIdle /\ LatexIdle /\ ServerIdle /\ ExportIdle /\ SessionIdle /\ LazyIdle /\ AppIdle
SpecBlocks == BlockStart /\ [][BlockNext]_vars

\* a step of this component leaves the others as they are
TableFrame == UNCHANGED <<stripVars, inlineVars, blockVars, csvVars, latexVars, serverVars, exportVars, sessionVars, lazyVars, appVars>>
TableNext ==
    \/ ParseMarkdownTable /\ TableFrame
TableStart ==
    StripIdle /\ InlineIdle /\ BlockIdle /\ TableInit /\ CsvIdle /\ LatexIdle /\ ServerIdle /\ ExportIdle /\ SessionIdle /\ LazyIdle /\ AppIdle
SpecTable == TableStart /\ [][TableNext]_vars

\* a step of this component leaves the others as they are
CsvFrame == UNCHANGED <<stripVars, inlineVars, blockVars, tableVars, latexVars, serverVars, exportVars, sessionVars, lazyVars, appVars>>
CsvNext ==
    \/ GenerateCSV /\ CsvFrame
    \/ ParseMarkdownToTableData /\ CsvFrame
CsvStart ==
    StripIdle /\ InlineIdle /\ BlockIdle /\ TableIdle /\ CsvInit /\ LatexIdle /\ ServerIdle /\ ExportIdle /\ SessionIdle /\ LazyIdle /\ AppIdle
SpecCsv == CsvStart /\ [][CsvNext]_vars

\* a step of this component leaves the others as they are
LatexFrame == UNCHANGED <<stripVars, inlineVars, blockVars, tableVars, csvVars, serverVars, exportVars, sessionVars, lazyVars, appVars>>
LatexNext ==
    \/ ParseMarkdownToLaTeX /\ LatexFrame
LatexStart ==
    StripIdle /\ InlineIdle /\ BlockIdle /\ TableIdle /\ CsvIdle /\ LatexInit /\ ServerIdle /\ ExportIdle /\ SessionIdle /\ LazyIdle /\ AppIdle
SpecLatex == LatexStart /\ [][LatexNext]_vars

\* a step of this component leaves the others as they are
ServerFrame == UNCHANGED <<stripVars, inlineVars, blockVars, tableVars, csvVars, latexVars, exportVars, sessionVars, lazyVars, appVars>>
ServerNext ==
    \/ ThrowNoArguments /\ ServerFrame
    \/ RejectMissingMarkdown /\ ServerFrame
    \/ ConvertText /\ ServerFrame
    \/ ConvertBinary /\ ServerFrame
    \/ RenderHtml /\ ServerFrame
    \/ LaunchBrowser /\ ServerFrame
    \/ Capture /\ ServerFrame
    \/ RejectUnknownTool /\ ServerFrame
    \/ ReturnContent /\ ServerFrame
    \/ Mkdir /\ ServerFrame
    \/ WriteFile /\ ServerFrame
    \/ Stat /\ ServerFrame
ServerStart ==
    StripIdle /\ InlineIdle /\ BlockIdle /\ TableIdle /\ CsvIdle /\ LatexIdle /\ ServerInit /\ ExportIdle /\ SessionIdle /\ LazyIdle /\ AppIdle
SpecServer == ServerStart /\ [][ServerNext]_vars

\* generateJSON and generateXML
ExportFrame == UNCHANGED <<stripVars, inlineVars, blockVars, tableVars, csvVars, latexVars, serverVars, sessionVars, lazyVars, appVars>>
ExportNext ==
    \/ GenerateJSON /\ ExportFrame
    \/ GenerateXML /\ ExportFrame
ExportStart ==
    StripIdle /\ InlineIdle /\ BlockIdle /\ TableIdle /\ CsvIdle /\ LatexIdle /\ ServerIdle /\ ExportInit /\ SessionIdle /\ LazyIdle /\ AppIdle
SpecExport == ExportStart /\ [][ExportNext]_vars

SessionFrame == UNCHANGED <<stripVars, inlineVars, blockVars, tableVars, csvVars, latexVars, serverVars, exportVars, lazyVars, appVars>>
SessionNext ==
    \/ \E r \in Requests : ReuseInstance(r) /\ SessionFrame
    \/ \E r \in Requests : CreateInstance(r) /\ SessionFrame
    \/ \E r \in Requests : ConnectResolves(r) /\ SessionFrame
    \/ \E r \in Requests : ConnectRejects(r) /\ SessionFrame
    \/ \E r \in Requests : HandleRequest(r) /\ SessionFrame
SessionStart ==
    StripIdle /\ InlineIdle /\ BlockIdle /\ TableIdle /\ CsvIdle /\ LatexIdle /\ ServerIdle /\ ExportIdle /\ SessionInit /\ LazyIdle /\ AppIdle
SpecSessions == SessionStart /\ [][SessionNext]_vars

LazyFrame == UNCHANGED <<stripVars, inlineVars, blockVars, tableVars, csvVars, latexVars, serverVars, exportVars, sessionVars, appVars>>
LazyNext ==
    \/ \E r \in Requests : InitTransport(r) /\ LazyFrame
    \/ \E r \in Requests : SkipInit(r) /\ LazyFrame
    \/ \E r \in Requests : InitResolves(r) /\ LazyFrame
    \/ \E r \in Requests : InitRejects(r) /\ LazyFrame
    \/ \E r \in Requests : RequestSettles(r) /\ LazyFrame
LazyStart ==
    StripIdle /\ InlineIdle /\ BlockIdle /\ TableIdle /\ CsvIdle /\ LatexIdle /\ ServerIdle /\ ExportIdle /\ SessionIdle /\ LazyInit /\ AppIdle
SpecLazyInit == LazyStart /\ [][LazyNext]_vars

AppFrame == UNCHANGED <<stripVars, inlineVars, blockVars, tableVars, csvVars, latexVars, serverVars, exportVars, sessionVars, lazyVars>>
AppNext ==
    \/ SetInput /\ AppFrame
    \/ SetMode /\ AppFrame
    \/ \E k \in 1..Len(previews) : TimerFires(k) /\ AppFrame
    \/ \E k \in 1..Len(previews) : ConversionResolves(k) /\ AppFrame
    \/ \E k \in 1..Len(previews) : ConversionRejects(k) /\ AppFrame
AppStart ==
    StripIdle /\ InlineIdle /\ BlockIdle /\ TableIdle /\ CsvIdle /\ LatexIdle /\ ServerIdle /\ ExportIdle /\ SessionIdle /\ LazyIdle /\ AppInit
SpecApp == AppStart /\ [][AppNext]_vars

\* a block renderer on fenced code: the branches such a content takes
FencesNext ==
    \/ EnterFencedLoop /\ BlockFrame
    \/ OpenFence /\ BlockFrame
    \/ CodeLine /\ BlockFrame
    \/ CloseFence /\ BlockFrame
    \/ Paragraph /\ BlockFrame
    \/ Return /\ BlockFrame
FencesStart ==
    StripIdle /\ InlineIdle /\ BlockIdle /\ TableIdle /\ CsvIdle /\ LatexIdle /\ ServerIdle /\ ExportIdle /\ SessionIdle /\ LazyIdle /\ AppIdle
SpecFences == FencesStart /\ [][FencesNext]_vars

\* the loops: one call of a block renderer, or one call of stripMarkdown
\* up to the end of its emphasis loop
LoopsNext ==
    \/ EnterLoop /\ BlockFrame
    \/ BlockNext
    \/ EnterEmphasisLoop /\ StripFrame
    \/ EmphasisIteration /\ StripFrame
    \/ EmphasisExit /\ StripFrame
LoopsStart ==
    StripIdle /\ InlineIdle /\ BlockIdle /\ TableIdle /\ CsvIdle /\ LatexIdle /\ ServerIdle /\ ExportIdle /\ SessionIdle /\ LazyIdle /\ AppIdle
SpecLoops == LoopsStart /\ [][LoopsNext]_vars

(***************************************************************************)
(* The claims                                                              *)
(***************************************************************************)
\* C1: stripMarkdown is idempotent: stripping the stripped text changes nothing.
StripIdempotent == stripPc = "restripped" => restripped = clean

\* C2: when the input ends inside a fence that was never closed, both
\* renderers still end their output with one code block that holds every
\* buffered line.
UnclosedFenceEmitted ==
    (blockPc = "done" /\ inCodeBlock) =>
        /\ elements # <<>>
        /\ elements[Len(elements)] = DocxCode(codeBlockContent)
        /\ EndsWith(rtf, RTFCode(codeBlockContent))

\* the characters of the inputs that no delimiter and no tag is written with
PlainChars == {"a", "x", "y", "z"}
Keep(s, set) == SelectSeq(s, LAMBDA c : c \in set)
TokenContents == Flatten([j \in 1..Len(runs) |-> runs[j].text])

\* C3: the contents of the tokens, concatenated in order, are the text
\* with only delimiter characters removed: no other character of the input is
\* lost, duplicated or reordered, in the TextRuns and in the RTF string.
TokensKeepText ==
    /\ inlinePc = "docx" => Keep(TokenContents, PlainChars) = Keep(inlineText, PlainChars)
    /\ inlinePc = "rtf" => Keep(rtfInline, PlainChars) = Keep(inlineText, PlainChars)

\* C4: for a header row, a separator row and N data rows, parseMarkdownTable
\* returns N rows in source order, as many headers as the table has columns
\* and one cell per column in every row.
TableShapeKept ==
    tablePc = "parsed" =>
        /\ Len(parsed.headers) = Len(tableHeaders)
        /\ Len(parsed.rows) = Len(tableRows)
        /\ \A r \in 1..Len(parsed.rows) : parsed.rows[r] = tableRows[r]

\* a cell as the claim writes it: in double quotes, its double quotes doubled
QuotedCell(c) ==
    <<DQ>> \o Flatten([j \in 1..Len(c) |-> IF c[j] = DQ THEN <<DQ, DQ>> ELSE <<c[j]>>]) \o <<DQ>>
QuotedRow(cells) ==
    Join([j \in 1..Len(cells) |-> QuotedCell(cells[j])], <<",">>) \o <<NL>>

\* C5: generateCSV's output is one line per table row, in document order:
\* every cell of the row in double quotes with its quotes doubled, the cells
\* joined by commas, a newline at the end; separator rows and lines that are
\* not table rows add nothing.
CsvOfRows ==
    csvPc = "done" =>
        csv = Flatten([j \in 1..Len(csvDoc) |->
                          IF csvDoc[j].kind = "row" THEN QuotedRow(csvDoc[j].cells) ELSE <<>>])

\* C6: for `# H`, a blank line and a paragraph with `*t*`, the LaTeX output
\* holds \section{H} and \textit{t} with their braces, and no # and no *.
LatexSectionAndItalic ==
    latexPc = "done" =>
        \A h \in LatexWords, t \in LatexWords :
            latexLines = <<AtxLine(h), <<>>, ItalicLine(t)>> =>
                /\ Includes(latex, Chars("\\section{") \o h \o Chars("}"))
                /\ Includes(latex, Chars("\\textit{") \o t \o Chars("}"))
                /\ ~Includes(latex, Chars("#"))
                /\ ~Includes(latex, Chars("*"))

\* words without delimiter characters
SpanWords == {Chars("x"), Chars("y z")}
BoldTextItalic(A, T, B) == <<Chars("**") \o A \o Chars("**"), T, Chars("*") \o B \o Chars("*")>>

\* C7: for the text **A** T *B*, with A, T and B free of delimiter
\* characters, the tokenizer yields bold(A), text(T), italic(B) and nothing
\* else: three TextRuns, and the RTF string {\b A}T{\i B}.
BoldTextItalicTokens ==
    \A A \in SpanWords, T \in PlainWords, B \in SpanWords :
        segs = BoldTextItalic(A, T, B) =>
            /\ inlinePc = "docx" =>
                  runs = <<TextRun("bold", A), TextRun("text", T), TextRun("italic", B)>>
            /\ inlinePc = "rtf" =>
                  rtfInline = Chars("{\\b ") \o A \o Chars("}") \o T \o Chars("{\\i ") \o B \o Chars("}")
BoldTextItalicParsed ==
    /\ segs = BoldTextItalic(Chars("x"), Chars(" b "), Chars("y z"))
    /\ inlinePc = "docx"
    /\ Len(runs) = 3

\* C8: a line starting with | that no other line with a | follows is
\* emitted as a paragraph carrying its text, by both renderers.
PipeLineBecomesParagraph ==
    [][(InBranch("table") /\ TableEnd(lines, i) = i + 1) =>
          /\ rtf' = rtf \o RTFParagraph(trimmed)
          /\ elements' = Append(elements, DocxParagraph(line))]_vars

\* C9: a call whose arguments carry no Markdown text returns the error
\* "Markdown content is required", whatever the tool name, before any
\* converter, renderer, browser or file system call.
MissingMarkdownRejected ==
    (handlerPc = "returned" /\ ~Truthy(markdown)) =>
        /\ result = Failure(ErrorText(Chars("Markdown content is required")))
        /\ effects = <<>>

FsCalls == {"fs.mkdir", "fs.writeFile", "fs.stat"}
WriteAttempts == Cardinality({k \in 1..Len(effects) : effects[k] = "fs.writeFile"})
\* handleOutput, given a path, had one of its fs calls throw
SaveFailed == handlerPc = "returned" /\ Truthy(outputPath) /\ thrown.by \in FsCalls
\* what the claim says of the result then
SaveFailureReported ==
    /\ result.isError
    /\ Includes(result.text, Chars(thrown.message))
    /\ ~Includes(result.text, Chars("success"))
    /\ ~Includes(result.text, Chars("Successfully"))

\* C10, as stated: when mkdir, writeFile or stat fails the result is an error
\* carrying the message, no confirmation is returned and the write was
\* attempted exactly once.
SaveFailureWritesOnce == SaveFailed => (SaveFailureReported /\ WriteAttempts = 1)

\* C10, amended: when mkdir, writeFile or stat fails the result is an error
\* carrying the message and no confirmation is returned; the write was
\* attempted once, without a retry, when writeFile or stat failed, and not at
\* all when mkdir failed.
SaveFailureWritesAtMostOnce ==
    SaveFailed =>
        /\ SaveFailureReported
        /\ WriteAttempts = (IF thrown.by = "fs.mkdir" THEN 0 ELSE 1)
WriteFailureReturned == SaveFailed /\ thrown.by = "fs.writeFile"

\* handleOutput returned the confirmation of a save
Saved == handlerPc = "returned" /\ Truthy(outputPath) /\ thrown = NothingThrown
\* a field of the JSON text, as JSON.stringify(..., null, 2) writes it
HasField(text, key, value) == Includes(text, JsonString(Chars(key)) \o Chars(": ") \o value)
\* the format tags of the produced outputs
FormatTags == {"txt", "latex", "csv", "html", "pdf", "png", "docx", "xlsx"}
SaveWritten ==
    /\ \E k \in 1..Len(effects) : effects[k] = "fs.writeFile"
    /\ ~result.isError
    /\ HasField(result.text, "file_path", JsonString(outputPath.value))
    /\ HasField(result.text, "file_size_bytes", NumberToChars(WrittenSize))
    /\ toolOutput.buffer \/ toolOutput.data = <<>> \/ ~Includes(result.text, toolOutput.data)

\* C11: after a successful save the result is the confirmation with the
\* path, the size of the written file and the format tag of the output, for
\* the text tools as for the binary ones, and the content is not in the result.
SaveConfirmed ==
    Saved =>
        /\ SaveWritten
        /\ \E tag \in FormatTags : HasField(result.text, "format", JsonString(Chars(tag)))

\* the summary of a Buffer was returned, the call having no output path
Summarised ==
    handlerPc = "returned" /\ ~Truthy(outputPath) /\ thrown = NothingThrown /\ toolOutput.buffer
\* the content was a string and the call had no output path
ReturnedInline ==
    /\ handlerPc = "returned" /\ ~Truthy(outputPath) /\ thrown = NothingThrown
    /\ ~toolOutput.buffer /\ Truthy(markdown)
PreviewOf(bytes) == SubSeq(Base64(bytes), 1, 100) \o Chars("...")

\* C12: without an output path a Buffer is summarised: its format, its
\* length as file_size_bytes, the hint naming output_path, and a preview of
\* the first 100 base64 characters, the 101st never in the result; a string is
\* returned unchanged as the text of the result.
BufferSummarised ==
    /\ Summarised =>
          /\ ~result.isError
          /\ HasField(result.text, "format", JsonString(toolOutput.format))
          /\ HasField(result.text, "file_size_bytes", NumberToChars(Len(toolOutput.data)))
          /\ Includes(result.text, Chars("call this tool again with the 'output_path' parameter"))
          /\ HasField(result.text, "base64_preview", JsonString(PreviewOf(toolOutput.data)))
          /\ ~Includes(result.text, SubSeq(Base64(toolOutput.data), 1, 101))
    /\ ReturnedInline => result = Success(toolOutput.data)
SummaryReturned == Summarised /\ name = "convert_to_docx" /\ Len(Base64(toolOutput.data)) > 100

\* the paragraph blocks of a document: the runs of lines that are not
\* blank, separated by one or more blank lines
Blank(l) == Trim(l) = <<>>
BlockStarts(ls) == {k \in 1..Len(ls) : ~Blank(ls[k]) /\ (k = 1 \/ Blank(ls[k - 1]))}
BlockEnd(ls, k) == MinOf({e \in k..Len(ls) : e = Len(ls) \/ Blank(ls[e + 1])})
NthOf(S, j) == CHOOSE x \in S : Cardinality({y \in S : y < x}) = j - 1
ParagraphBlocks(ls) ==
    [j \in 1..Cardinality(BlockStarts(ls)) |->
        Join(SubSeq(ls, NthOf(BlockStarts(ls), j), BlockEnd(ls, NthOf(BlockStarts(ls), j))), <<NL>>)]

\* C13: generateJSON's object has the keys title, export_timestamp, content
\* and structured_content; content is the stripped input and
\* structured_content holds one entry per paragraph block of the input, in
\* order, each the stripped block.
JsonOneEntryPerBlock ==
    exportPc = "json" =>
        /\ DOMAIN jsonData = {"title", "export_timestamp", "content", "structured_content"}
        /\ jsonData.content = stripMarkdown(exportContent)
        /\ jsonData.structured_content =
              [j \in 1..Len(ParagraphBlocks(exportLines)) |->
                  stripMarkdown(ParagraphBlocks(exportLines)[j])]

Occurrences(s, sub) == Cardinality({p \in 1..Len(s) : HasPrefixAt(s, p, sub)})

\* C14: generateXML's document holds the stripped content in one CDATA
\* section, opened right after <content> and closed right before </content>,
\* and no text of the input closes the section early or adds a tag to the
\* twelve of the document (the declaration, five elements opened and closed,
\* the opening of the CDATA section).
XmlCdataIntact ==
    exportPc = "xml" =>
        /\ Includes(exportText, Chars("<content><![CDATA[") \o stripMarkdown(exportContent)
                                    \o Chars("]]></content>"))
        /\ Occurrences(exportText, Chars("<![CDATA[")) = 1
        /\ Occurrences(exportText, Chars("]]>")) = 1
        /\ Occurrences(exportText, Chars("<")) =
              12 + Occurrences(stripMarkdown(exportContent), Chars("<"))

\* the loop is at a line
AtLine == blockPc = "loop" /\ i < Len(lines)

\* C15: while a fence is open, a line that does not start with a triple
\* backtick is appended unchanged to the code buffer and nothing is emitted
\* for it: it is not taken as a rule, a heading, a table or a list item.
FenceLinesBuffered ==
    [][(AtLine /\ inCodeBlock /\ ~StartsWith(trimmed, Fence)) =>
          /\ codeBlockContent' = Append(codeBlockContent, line)
          /\ rtf' = rtf
          /\ elements' = elements]_vars

\* three or more repetitions of one of * - _
RepeatedMark(t) == Len(t) >= 3 /\ \E c \in {"*", "-", "_"} : \A k \in 1..Len(t) : t[k] = c

\* C16: outside a fence, a line whose trimmed text is three or more
\* repetitions of one of * - _, reached by the loop (so not consumed as a
\* setext underline), is emitted as a horizontal rule by both renderers.
RepeatedMarkIsRule ==
    [][(AtLine /\ ~inCodeBlock /\ RepeatedMark(trimmed)) =>
          /\ rtf' = rtf \o RTFRule
          /\ elements' = Append(elements, DocxRule)]_vars

\* a separator row: pipes, dashes, colons and spaces, with a dash
SeparatorRow(l) ==
    /\ \A k \in 1..Len(l) : l[k] \in {"|", "-", ":", " "}
    /\ \E k \in 1..Len(l) : l[k] = "-"
\* the step emitted a table
TableEmitted ==
    /\ Len(elements') > Len(elements)
    /\ elements'[Len(elements) + 1].block = "table"

\* C17: a table is emitted for a run of pipe lines only when the run has two
\* lines or more and its second line is a separator row.
TableNeedsSeparator ==
    [][(InBranch("table") /\ TableEmitted) =>
          /\ TableEnd(lines, i) - i >= 2
          /\ SeparatorRow(lines[i + 2])]_vars

\* the line after the one the loop is at is an underline of = or -
UnderlineNext ==
    /\ i + 1 < Len(lines)
    /\ \/ Test(RE_Underline("="), Trim(lines[i + 2]))
       \/ Test(RE_Underline("-"), Trim(lines[i + 2]))

\* C18: a blank line followed by an underline yields a blank block and
\* leaves the underline to be classified on its own: no heading with empty
\* text is emitted.
BlankBeforeUnderline ==
    [][(AtLine /\ ~inCodeBlock /\ trimmed = <<>> /\ UnderlineNext) =>
          /\ rtf' = rtf \o RTFBlank
          /\ elements' = Append(elements, DocxBlank)
          /\ i' = i + 1]_vars

\* the markers of a blockquote line, each with or without one space after it
MarkerEnd(t) == MinOf({k \in 1..(Len(t) + 1) : k = Len(t) + 1 \/ t[k] \notin {">", " "}})
QuoteDepth(t) == Cardinality({k \in 1..(MarkerEnd(t) - 1) : t[k] = ">"})
QuoteIndent(k) == Chars("{\\pard\\li") \o NumberToChars(720 * k) \o Chars("\\cf2")

\* C20: a blockquote line with k markers, written >>> x or > > > x, is
\* emitted with depth k, the left indent 720*k, and a text that does not
\* begin with a marker.
QuoteDepthCounted ==
    [][InBranch("blockquote") =>
          /\ Len(elements') = Len(elements) + 1
          /\ elements'[Len(elements')].block = "blockquote"
          /\ elements'[Len(elements')].level = QuoteDepth(trimmed)
          /\ ~StartsWith(elements'[Len(elements')].children[1].text, <<">">>)
          /\ HasPrefixAt(rtf', Len(rtf) + 1, QuoteIndent(QuoteDepth(trimmed)))
          /\ ~HasPrefixAt(rtf', Len(rtf) + 1,
                          QuoteIndent(QuoteDepth(trimmed)) \o Chars("\\i\\sa100 >"))]_vars

\* the document is made of pipe-delimited rows only
OnlyPipeRows == \A j \in 1..Len(csvDoc) : csvDoc[j].kind # "prose"
\* the rows that are no separator and have a cell with text: their cells
DataRows == SelectSeq(csvDoc, LAMBDA l : l.kind = "row" /\ FilterNonEmpty(l.cells) # <<>>)
RetainedRows == [j \in 1..Len(DataRows) |-> FilterNonEmpty(DataRows[j].cells)]

\* C19: the table extractors drop a pipe-delimited row exactly when its
\* cells are made of dashes, colons and whitespace: every separator row is
\* dropped, whatever its dashes, and a data row with --- in a cell is kept.
OnlySeparatorsDropped ==
    OnlyPipeRows =>
        /\ csvPc = "done" => csv = Flatten([j \in 1..Len(RetainedRows) |-> QuotedRow(RetainedRows[j])])
        /\ csvPc = "data" => tableData = RetainedRows

\* the paragraph element the step pushed ends with a line-break run
DocxBreakLast ==
    LET cs == elements'[Len(elements')].children IN
    Len(cs) > 0 /\ cs[Len(cs)].kind = "line-break"
\* the paragraph the step appended to rtf ends its inline content with \line
RTFBreakLast == EndsWith(rtf', Chars("\\line \\par}\n"))

\* C21: a paragraph line that ends in two or more spaces has its inline
\* content ended by a line break in both renderers, and a paragraph line
\* that does not end so gets no line break.
HardBreakEmitted ==
    [][InBranch("paragraph") =>
          /\ DocxBreakLast <=> EndsWith(line, Chars("  "))
          /\ RTFBreakLast <=> EndsWith(line, Chars("  "))]_vars

\* the kind of token each delimiter stands for
KindOfDelimiter(d) ==
    CASE d = Chars("***") -> "bold-italic"
      [] d = Chars("**") -> "bold"
      [] d \in {Chars("*"), Chars("_")} -> "italic"
      [] d = Chars("$") -> "math-inline"
      [] d = Chars("~~") -> "strikethrough"
      [] OTHER -> "code"

\* C22: a span written with one of the delimiters becomes exactly one token
\* of the delimiter's kind with the delimiters removed: ***x*** is one
\* bold-italic token and ~~x~~ is one strikethrough token with content x,
\* and the RTF string carries x without the delimiters.
SpanIsOneToken ==
    \A d \in Delimiters :
        segs = <<d \o Chars("x") \o d>> =>
            /\ inlinePc = "docx" => runs = <<TextRun(KindOfDelimiter(d), Chars("x"))>>
            /\ inlinePc = "rtf" => Keep(rtfInline, {"x", "*", "_", "$", BT, "~"}) = Chars("x")

\* the backslashes that end just before position k of s
BackslashesBefore(s, k) ==
    LET from == MaxOf({0} \cup {p \in 1..(k - 1) : s[p] # BS}) IN (k - 1) - from
\* position k of s holds c and no backslash escapes it
Unescaped(s, k, c) == s[k] = c /\ BackslashesBefore(s, k) % 2 = 0
UnescapedCount(s, c) == Cardinality({k \in 1..Len(s) : Unescaped(s, k, c)})

\* C23: the RTF string is pure ASCII, every character above code 127 being
\* written as a numeric escape, and its unescaped braces are balanced: the
\* braces and backslashes of the source text are escaped and every group
\* the renderer opens is closed.
RTFEscaped ==
    /\ \A k \in 1..Len(rtf) : rtf[k] \notin NonAscii
    /\ UnescapedCount(rtf, "{") = UnescapedCount(rtf, "}")

\* a pass of a renderer's main loop body
LoopPass == blockPc = "loop" /\ i < Len(lines)

\* C24: every pass of the renderers' main loop moves the line index forward
\* and not beyond the last line, the setext pass by two lines, so the loop
\* makes at most one pass per line, and it returns when the index has
\* reached the number of lines; each pass of stripMarkdown's emphasis loop
\* counts one up and the loop is left after exactly three passes.
LoopsTerminate ==
    /\ [][LoopPass => (i' > i /\ i' <= Len(lines) /\ blockPc' = "loop")]_vars
    /\ [](loopPasses <= Len(lines))
    /\ [][InBranch("setext") => i' = i + 2]_vars
    /\ [][(blockPc = "loop" /\ ~LoopPass) => blockPc' = "done"]_vars
    /\ [][stripPc = "emphasis" =>
             \/ emphasisI < 3 /\ emphasisI' = emphasisI + 1 /\ stripPc' = "emphasis"
             \/ emphasisI = 3 /\ stripPc' = "emphasized"]_vars
\* a document of three lines with a setext heading and a table row was
\* rendered to its end
LoopsRan ==
    /\ blockPc = "done"
    /\ Len(lines) = 3
    /\ i = 3
    /\ loopPasses = 2
    /\ \E k \in 1..Len(elements) : elements[k].block = "heading"
    /\ Includes(lines[3], <<"|">>)

\* the pairs created for a session id
PairsOf(s) == {k \in 1..Len(pairs) : pairs[k] = s}

\* C25: for requests that carry the same session id, at most one
\* Server/transport pair is created and connected for that id, the registry
\* holds that pair once one is registered, and every request holds that
\* same instance.
OneInstancePerSession ==
    \A s \in SessionIds :
        /\ Cardinality(PairsOf(s)) <= 1
        /\ instances[s] # 0 => PairsOf(s) = {instances[s]}
        /\ \A r \in Requests :
              (reqSession[r] = s /\ reqInstance[r] # 0) => PairsOf(s) = {reqInstance[r]}

\* C26: transport.handleRequest is only called once server.connect has
\* completed: not while the first initialization is awaited, and not after
\* an initialization that failed, where the next request initializes again.
DispatchedWhenConnected ==
    \A k \in 1..Len(dispatched) : dispatched[k].connected

\* C27: when a convert_to_pdf or convert_to_image call has returned, its
\* result or an error result, no browser that it launched is left open.
BrowserClosedOnReturn ==
    (handlerPc = "returned" /\ name \in {"convert_to_pdf", "convert_to_image"}) => ~browserOpen

\* what the output shows for an input and a mode
Shown(text, m) == IF Trim(text) = <<>> THEN NoOutputYet ELSE Converted(text, m)

\* C28: the output is only ever set from the current input and mode: a
\* conversion that settles after the input or the mode has changed is
\* discarded and does not overwrite the output.
OutputFromLatest ==
    [][output' # output => output' = Shown(input, mode)]_vars
\* a conversion settled after its run was cleaned up and was discarded,
\* while the output shows the conversion of the current input and mode
StaleDiscarded ==
    /\ \E k \in 1..Len(previews) : previews[k].at = "discarded"
    /\ Trim(input) # <<>>
    /\ output = Converted(input, mode)

\* no timer is pending and no conversion is in flight
Settled == \A k \in 1..Len(previews) : previews[k].at \notin {"timer", "converting"}

\* C29: once every timer has fired or was cleared and every conversion has
\* settled, isProcessing is false.
ProcessingEnds == Settled => ~isProcessing

\* the code paragraph of the lines ls: each line escaped, \line between them
CodeParagraph(ls) ==
    Chars("{\\pard\\f1\\fs20\\highlight3 ")
        \o Join([j \in 1..Len(ls) |-> encodeRTFText(ls[j])], Chars("\\line\n"))
        \o Chars("\\par}\n")

\* C30: closing a fence with two or more content lines appends one code
\* paragraph in which consecutive lines are separated by the control word
\* \line, written with a single backslash that is not escaped.
CodeLinesBroken ==
    [][(InBranch("fence") /\ inCodeBlock /\ Len(codeBlockContent) >= 2) =>
          rtf' = rtf \o CodeParagraph(codeBlockContent)]_vars

====
